---- MODULE Spec2Model ----
(***************************************************************************)
(* A model of django-template-lsp (package djlsp): the workspace index     *)
(* (index.py), the template parser (parser.py) and the language server     *)
(* handlers (server.py).                                                   *)
(*                                                                         *)
(* Representation.  A Python str that the code cuts, compares or filters   *)
(* by prefix (labels, names, sort keys) is a sequence of character codes,  *)
(* so that startswith, the order of sorted() and f-string building are     *)
(* computed and not assumed.  Python None is the empty option <<>>, a      *)
(* present value v is <<v>>.  A document is a sequence of lines, a line a  *)
(* sequence of items (template tags, closed by %} or still being typed).   *)
(***************************************************************************)
EXTENDS Integers, Sequences, FiniteSets, TLC

VARIABLES
    workspace_index,            \* DjangoTemplateLanguageServer.workspace_index / TemplateParser.workspace_index
    document,                   \* the TextDocument of the request: its template name and its lines
    result,                     \* the call that has returned and what it returned, until it is delivered
    _MOST_RECENT_COMPLETIONS,   \* parser.py's module-level dict: label -> engine completion
    is_initialized,             \* DjangoTemplateLanguageServer.is_initialized
    current_file_watcher_globs, \* DjangoTemplateLanguageServer.current_file_watcher_globs
    threads,                    \* the files_changed calls that run on worker threads
    shown_messages,             \* what show_message has sent to the client, in order
    cache_file                  \* the option self.cache and the data in the cache file

vars == <<workspace_index, document, result, _MOST_RECENT_COMPLETIONS, is_initialized,
          current_file_watcher_globs, threads, shown_messages,
          cache_file>>

(***************************************************************************)
(* Python values                                                           *)
(***************************************************************************)

None == <<>>

Some(v) == <<v>>

IsNone(o) == o = <<>>

Val(o) == o[1]

\* dict.get(key, default) on a dict modelled as a function
Get(d, key, default) == IF key \in DOMAIN d THEN d[key] ELSE default

\* the empty dict
EmptyDict == [x \in {} |-> None]

\* str.startswith(prefix)
StartsWith(s, prefix) ==
    /\ Len(prefix) <= Len(s)
    /\ SubSeq(s, 1, Len(prefix)) = prefix

\* the order of Python str: lexicographic by code point, a proper prefix first
StrLess(a, b) ==
    \E i \in 1..(Len(b)) :
        /\ \A j \in 1..(i - 1) : j <= Len(a) /\ a[j] = b[j]
        /\ i - 1 <= Len(a)
        /\ (i = Len(a) + 1 \/ (i <= Len(a) /\ a[i] < b[i]))

RECURSIVE Str(_)
\* str(n) of an integer: its decimal digits
Str(n) ==
    IF n < 0 THEN <<45>> \o Str(0 - n)
    ELSE IF n < 10 THEN <<48 + n>> ELSE Str(n \div 10) \o <<48 + (n % 10)>>

RECURSIVE SetToSeq(_)
\* some list holding each element of a set once (list(set(...)), dict order of a set)
SetToSeq(S) ==
    IF S = {} THEN <<>>
    ELSE LET x == CHOOSE y \in S : TRUE IN <<x>> \o SetToSeq(S \ {x})

Range(s) == {s[i] : i \in 1..Len(s)}

\* reversed(list)
Reversed(s) == [i \in 1..Len(s) |-> s[Len(s) + 1 - i]]

RECURSIVE Flatten(_)
\* the concatenation of a list of lists
Flatten(ss) == IF ss = <<>> THEN <<>> ELSE Head(ss) \o Flatten(Tail(ss))

(***************************************************************************)
(* Names used by the bounded inputs                                        *)
(***************************************************************************)

\* "__builtins__" is written "_" here: djlsp.constants.BUILTIN
BUILTIN == <<95>>

NameA == <<97>>

NameB == <<98>>

NameAB == <<97, 98>>

NameC == <<99>>

\* library names: "w" (known), "u" (not in the index)
LibW == <<119>>

LibV == <<118>>

LibU == <<117>>

\* template names "p", "q", "r"
TplP == <<112>>

TplQ == <<113>>

TplR == <<114>>

(***************************************************************************)
(* index.py: the workspace index                                           *)
(***************************************************************************)

\* Variable(type=None, docs="", value=""): the dataclass defaults
Variable(fields) ==
    [type  |-> Get(fields, "type", None),
     docs  |-> Get(fields, "docs", <<>>),
     value |-> Get(fields, "value", <<>>)]

\* WorkspaceIndex(): every field at its dataclass default
EmptyIndex ==
    [src_path                |-> "",
     env_path                |-> "",
     file_watcher_globs      |-> <<>>,
     static_files            |-> <<>>,
     urls                    |-> EmptyDict,
     libraries               |-> EmptyDict,
     templates               |-> EmptyDict,
     global_template_context |-> EmptyDict]

\* the six collections a refresh writes, in the order update() writes them
Collections ==
    <<"file_watcher_globs", "static_files", "urls", "libraries", "templates",
      "global_template_context">>

\* Variable(**type_) if isinstance(type_, dict) else Variable(type=type_)
ToVariable(type_) ==
    IF type_.isdict THEN Variable(type_.fields) ELSE Variable([type |-> type_.type])

UpdateFileWatcherGlobs(idx, django_data) ==
    [idx EXCEPT !.file_watcher_globs =
        Get(django_data, "file_watcher_globs", idx.file_watcher_globs)]

UpdateStaticFiles(idx, django_data) ==
    [idx EXCEPT !.static_files = Get(django_data, "static_files", idx.static_files)]

UpdateUrls(idx, django_data) ==
    LET urls == Get(django_data, "urls", EmptyDict) IN
    [idx EXCEPT !.urls =
        [name \in DOMAIN urls |->
            [name   |-> name,
             docs   |-> Get(urls[name], "docs", <<>>),
             source |-> Get(urls[name], "source", <<>>)]]]

UpdateLibraries(idx, django_data) ==
    LET libs == Get(django_data, "libraries", EmptyDict) IN
    [idx EXCEPT !.libraries =
        [lib_name \in DOMAIN libs |->
            LET filters == Get(libs[lib_name], "filters", EmptyDict)
                tags    == Get(libs[lib_name], "tags", EmptyDict)
            IN  [name    |-> lib_name,
                 filters |-> [name \in DOMAIN filters |->
                                [name   |-> name,
                                 docs   |-> Get(filters[name], "docs", <<>>),
                                 source |-> Get(filters[name], "source", <<>>)]],
                 tags    |-> [tag \in DOMAIN tags |->
                                [name        |-> tag,
                                 docs        |-> IF "docs" \in DOMAIN tags[tag]
                                                 THEN Some(tags[tag].docs) ELSE None,
                                 source      |-> Get(tags[tag], "source", <<>>),
                                 inner_tags  |-> Get(tags[tag], "inner_tags", <<>>),
                                 closing_tag |-> IF "closing_tag" \in DOMAIN tags[tag]
                                                 THEN Some(tags[tag].closing_tag)
                                                 ELSE None]]]]]

UpdateTemplates(idx, django_data) ==
    LET tpls == Get(django_data, "templates", EmptyDict) IN
    [idx EXCEPT !.templates =
        [name \in DOMAIN tpls |->
            LET options == tpls[name]
                context == Get(options, "context", EmptyDict)
            IN  [name    |-> name,
                 path    |-> Get(options, "path", <<>>),
                 extends |-> Get(options, "extends", None),
                 blocks  |-> IF "blocks" \in DOMAIN options
                             THEN Some(options.blocks) ELSE None,
                 context |-> [v \in DOMAIN context |-> ToVariable(context[v])]]]]

UpdateGlobalTemplateContext(idx, django_data) ==
    LET ctx == Get(django_data, "global_template_context", EmptyDict) IN
    [idx EXCEPT !.global_template_context =
        [name \in DOMAIN ctx |-> ToVariable(ctx[name])]]

\* WorkspaceIndex.update: six attribute assignments, one after the other
Update(idx, django_data) ==
    UpdateGlobalTemplateContext(
      UpdateTemplates(
        UpdateLibraries(
          UpdateUrls(
            UpdateStaticFiles(
              UpdateFileWatcherGlobs(idx, django_data), django_data),
            django_data),
          django_data),
        django_data),
      django_data)

(***************************************************************************)
(* Documents.  An item is one template construct of a line:                *)
(*   k    its kind ("load", "block", "for", "text", ...),                  *)
(*   n    its name or expression, args its further words, as the names of  *)
(*        a trailing "as" clause,                                          *)
(*   c    whether it is closed by %} (or }}, #}); an item that is not      *)
(*        closed is the construct being typed.                             *)
(* A cursor is (line, character): a 0-based line and the number of items   *)
(* of that line that lie before the cursor.                                *)
(***************************************************************************)

Tag(k, n, args) == [k |-> k, n |-> n, args |-> args, as |-> <<>>, c |-> TRUE]

\* a closed tag that ends with "as <names> %}"
TagAs(k, n, args, as) == [k |-> k, n |-> n, args |-> args, as |-> as, c |-> TRUE]

Typing(k, n, args) == [k |-> k, n |-> n, args |-> args, as |-> <<>>, c |-> FALSE]

Text == Tag("text", <<>>, <<>>)

\* a Python call's outcome: a returned value or a raised exception
Return(v) == [raised |-> FALSE, value |-> v]

Raise(e) == [raised |-> TRUE, value |-> e]

\* CompletionItem(label, sort_text=None, kind=None, documentation=None, detail=None)
CompletionItem(label, sort_text, kind, documentation, detail) ==
    [label |-> label, sort_text |-> sort_text, kind |-> kind,
     documentation |-> documentation, detail |-> detail]

\* re_loaded = r".*{% ?load ([\w ]*) ?%}$" matched on a line: the line ends with a
\* closed load tag
ReLoadedMatch(line) ==
    /\ line # <<>>
    /\ line[Len(line)].k = "load"
    /\ line[Len(line)].c

LoadedLibrariesUnfiltered(index, doc) ==
    {BUILTIN} \cup
    UNION { Range(doc[i][Len(doc[i])].args) : i \in { j \in 1..Len(doc) : ReLoadedMatch(doc[j]) } }

\* TemplateParser.loaded_libraries
loaded_libraries(index, doc) ==
    {BUILTIN} \cup
    UNION { { lib \in Range(doc[i][Len(doc[i])].args) : lib \in DOMAIN index.libraries }
            : i \in { j \in 1..Len(doc) : ReLoadedMatch(doc[j]) } }

\* re_block = r"{% *block ([\w]*) *%}" .findall(line): the names of the closed block
\* tags of the line, in order
ReBlockFindall(line) ==
    LET idx == { i \in 1..Len(line) : line[i].k = "block" /\ line[i].c }
        RECURSIVE Names(_)
        Names(i) == IF i > Len(line) THEN <<>>
                    ELSE (IF i \in idx THEN <<line[i].n>> ELSE <<>>) \o Names(i + 1)
    IN  Names(1)

\* re_extends = r""".*{% ?extends ['"](.*)['"] ?%}.*""" .search(source): the first line
\* holding a closed extends tag, and on it the last such tag (the leading .* is greedy)
ReExtendsSearch(doc) ==
    LET closed(line) == { i \in 1..Len(line) : line[i].k = "extends" /\ line[i].c }
        lines == { j \in 1..Len(doc) : closed(doc[j]) # {} }
    IN  IF lines = {} THEN None
        ELSE LET j == CHOOSE x \in lines : \A y \in lines : x <= y
                 i == CHOOSE x \in closed(doc[j]) : \A y \in closed(doc[j]) : y <= x
             IN  Some(doc[j][i].n)

RECURSIVE _recursive_block_names(_, _, _)
\* TemplateParser._recursive_block_names; looked_up_templates is the list the
\* recursion shares, returned here as .looked; list(set(...)) is returned as a set
_recursive_block_names(index, template_name, looked_up_templates) ==
    LET looked == Append(looked_up_templates, template_name) IN
    IF template_name \notin DOMAIN index.templates
    THEN [raised |-> FALSE, value |-> {}, looked |-> looked]
    ELSE LET template == index.templates[template_name] IN
         IF IsNone(template.blocks)
         THEN \* block_names.extend(None)
              [raised |-> TRUE, value |-> "TypeError", looked |-> looked]
         ELSE IF /\ ~IsNone(template.extends)
                 /\ Val(template.extends) # <<>>
                 /\ Val(template.extends) \notin Range(looked)
              THEN LET sub == _recursive_block_names(index, Val(template.extends), looked)
                   IN  IF sub.raised THEN sub
                       ELSE [raised |-> FALSE,
                             value  |-> Range(Val(template.blocks)) \cup sub.value,
                             looked |-> sub.looked]
              ELSE [raised |-> FALSE, value |-> Range(Val(template.blocks)),
                    looked |-> looked]

UsedBlockNamesFirstOfLine(doc) ==
    UNION { { ReBlockFindall(doc[i])[j] : j \in DOMAIN ReBlockFindall(doc[i]) \cap {1} } :
            i \in 1..Len(doc) }

\* used_block_names of get_block_completions: the block names of every line
UsedBlockNames(doc) == UNION { Range(ReBlockFindall(doc[i])) : i \in 1..Len(doc) }

\* TemplateParser.get_block_completions
get_block_completions(index, doc, prefix) ==
    LET m == ReExtendsSearch(doc)
        Offered(names) ==
            IF names.raised THEN Raise(names.value)
            ELSE Return(SetToSeq({ CompletionItem(name, None, "Property", None, None) :
                         name \in { x \in names.value :
                                      x \notin UsedBlockNames(doc) /\ StartsWith(x, prefix) } }))
    IN  Offered(IF IsNone(m) THEN Return({})
                ELSE _recursive_block_names(index, Val(m), <<>>))

\* f"{rank}: {name}": the sort_text of a ranked candidate
RankedSortText(rank, name) == Str(rank) \o <<58, 32>> \o name

\* dict.setdefault(item.label, item) on a dict kept as the list of its values
SetDefault(items, item) ==
    IF \E i \in 1..Len(items) : items[i].label = item.label THEN items
    ELSE Append(items, item)

\* dict[item.label] = item on a dict kept as the list of its values
SetItem(items, item) ==
    IF \E i \in 1..Len(items) : items[i].label = item.label
    THEN [i \in 1..Len(items) |-> IF items[i].label = item.label THEN item ELSE items[i]]
    ELSE Append(items, item)

\* [x for x in items if x.label.startswith(prefix)]
RECURSIVE FilterPrefix(_, _)
FilterPrefix(items, prefix) ==
    IF items = <<>> THEN <<>>
    ELSE (IF StartsWith(Head(items).label, prefix) THEN <<Head(items)>> ELSE <<>>)
         \o FilterPrefix(Tail(items), prefix)

\* the names get_endblock_completions walks: for each line above the cursor, the
\* block names of the line, reversed
EndblockNameOrder(doc, line) ==
    Flatten([i \in 1..line |-> Reversed(ReBlockFindall(doc[i]))])

RECURSIVE EndblockItems(_, _)
\* items.setdefault(name, CompletionItem(label=name, sort_text=f"{999 - len(items)}: {name}"))
EndblockItems(names, items) ==
    IF names = <<>> THEN items
    ELSE EndblockItems(Tail(names),
            SetDefault(items,
                CompletionItem(Head(names),
                               Some(RankedSortText(999 - Len(items), Head(names))),
                               "Property", None, None)))

\* TemplateParser.get_endblock_completions; lines[:line] of a short document is the
\* whole document
get_endblock_completions(doc, line, prefix) ==
    FilterPrefix(EndblockItems(EndblockNameOrder(doc, IF line < Len(doc) THEN line ELSE Len(doc)),
                               <<>>), prefix)

\* TemplateParser.get_load_completions
get_load_completions(index, prefix) ==
    SetToSeq({ CompletionItem(lib, None, "Module", None, None) :
               lib \in { l \in DOMAIN index.libraries : l # BUILTIN /\ StartsWith(l, prefix) } })

\* TemplateParser.get_static_completions
get_static_completions(index, prefix) ==
    FilterPrefix([i \in 1..Len(index.static_files) |->
                    CompletionItem(index.static_files[i], None, "File", None, None)],
                 prefix)

\* TemplateParser.get_url_completions
get_url_completions(index, prefix) ==
    SetToSeq({ CompletionItem(index.urls[u].name, None, "Reference",
                              Some(index.urls[u].docs), None) :
               u \in { x \in DOMAIN index.urls : StartsWith(index.urls[x].name, prefix) } })

\* TemplateParser.get_template_completions
get_template_completions(index, prefix) ==
    SetToSeq({ CompletionItem(t, None, "File", None, None) :
               t \in { x \in DOMAIN index.templates : StartsWith(x, prefix) } })

\* key=lambda comp: comp.sort_text if comp.sort_text else comp.label
SortKey(comp) ==
    IF ~IsNone(comp.sort_text) /\ Val(comp.sort_text) # <<>>
    THEN Val(comp.sort_text) ELSE comp.label

RECURSIVE InsertSorted(_, _)
\* x put after every element whose key is not greater: sorted() is stable
InsertSorted(x, s) ==
    IF s = <<>> THEN <<x>>
    ELSE IF StrLess(SortKey(x), SortKey(Head(s))) THEN <<x>> \o s
         ELSE <<Head(s)>> \o InsertSorted(x, Tail(s))

RECURSIVE Sorted(_)
\* list(sorted(items, key=...))
Sorted(items) ==
    IF items = <<>> THEN <<>>
    ELSE InsertSorted(items[Len(items)], Sorted(SubSeq(items, 1, Len(items) - 1)))

(***************************************************************************)
(* Python source text of the synthetic unit.  An expression is the list of *)
(* its steps, left to right: a dotted segment, a call "()", a subscript    *)
(* "[n]", a trailing ".", and next(iter(...)) around all that precedes.    *)
(***************************************************************************)

Seg(x) == [op |-> "name", x |-> x]

Call == [op |-> "call", x |-> <<>>]

\* a segment of digits taken as a name
DigitsAsName(digits) == [op |-> "name", x |-> digits]

Index(digits) == [op |-> "index", x |-> digits]

Dot == [op |-> "dot", x |-> <<>>]

NextIter == [op |-> "nextiter", x |-> <<>>]

RECURSIVE Split(_, _)
\* str.split(sep) for a one-character separator
Split(str, sep) ==
    LET at == { i \in 1..Len(str) : str[i] = sep } IN
    IF at = {} THEN <<str>>
    ELSE LET i == CHOOSE x \in at : \A y \in at : x <= y
         IN  <<SubSeq(str, 1, i - 1)>> \o Split(SubSeq(str, i + 1, Len(str)), sep)

\* str.isdigit()
\* no segment taken as a list index
NeverDigit(str) == FALSE

IsDigit(str) == str # <<>> /\ \A i \in 1..Len(str) : str[i] \in 48..57

\* the Python text of a template path taken as it is: "a.0.b", "a."
RawExpr(variable) ==
    IF variable = <<>> THEN <<>>
    ELSE LET segments == Split(variable, 46)
             RECURSIVE Steps(_)
             Steps(i) ==
                 IF i > Len(segments) THEN <<>>
                 ELSE (IF segments[i] = <<>>
                       THEN (IF i = Len(segments) /\ i > 1 THEN <<Dot>> ELSE <<>>)
                       ELSE <<Seg(segments[i])>>) \o Steps(i + 1)
         IN  Steps(1)

ForLoopType == <<95, 68, 106, 97, 110, 103, 111, 70, 111, 114, 76, 111, 111, 112>>

NameForloop == <<102, 111, 114, 108, 111, 111, 112>>

NameNone == <<78, 111, 110, 101>>

\* one line of the unit
UnitLine(kind, name, type, value) ==
    [kind |-> kind, name |-> name, type |-> type, value |-> value]

(***************************************************************************)
(* The external analysis engine (jedi), seen through infer() and           *)
(* complete() on a unit.  Its world: the classes L (a list of S), S, I,    *)
(* the module m with class C, and whatever the unit declares.              *)
(***************************************************************************)

TypeL == <<76>>

TypeS == <<83>>

TypeI == <<73>>

ModuleM == <<109>>

TypeMC == <<109, 46, 67>>

NoneType == <<78, 111, 110, 101, 84, 121, 112, 101>>

NoValue == [kind |-> "none", t |-> <<>>]

Instance(t) == [kind |-> "instance", t |-> t]

Function(ret) == [kind |-> "function", t |-> ret]

\* the members of a class of the engine's world
EngineMembers(t) ==
    CASE t = TypeL -> { [name |-> <<112, 111, 112>>, value |-> Function(TypeS)] }
      [] t = TypeS -> { [name |-> <<117, 112>>, value |-> Function(TypeS)],
                        [name |-> <<95, 112>>, value |-> Function(TypeS)] }
      [] t = TypeMC -> { [name |-> <<102>>, value |-> Function(TypeL)],
                         [name |-> <<117, 112>>, value |-> Instance(TypeS)] }
      [] t = ForLoopType ->
            { [name |-> <<99, 111, 117, 110, 116, 101, 114>>, value |-> Instance(TypeI)],
              [name |-> <<112, 97, 114, 101, 110, 116, 108, 111, 111, 112>>,
               value |-> Instance(ForLoopType)] }
      [] OTHER -> {}

EngineAttr(v, seg) ==
    IF v.kind = "instance" /\ \E mb \in EngineMembers(v.t) : mb.name = seg
    THEN (CHOOSE mb \in EngineMembers(v.t) : mb.name = seg).value
    ELSE NoValue

\* the first element of an iterable, and element n of a sequence
EngineElement(v) ==
    IF v.kind = "instance" /\ v.t \in {TypeL, TypeS} THEN Instance(TypeS) ELSE NoValue

\* the class an annotation names, given the lines before it
EngineResolveType(type, lines) ==
    IF type \in {TypeL, TypeS, TypeI} THEN Instance(type)
    ELSE IF type = ForLoopType
         THEN (IF \E i \in 1..Len(lines) : lines[i].kind = "class" /\ lines[i].name = type
               THEN Instance(type) ELSE NoValue)
         ELSE LET parts == Split(type, 46) IN
              IF /\ Len(parts) = 2
                 /\ parts[2] = <<67>>
                 /\ \E i \in 1..Len(lines) :
                        /\ lines[i].kind = "import"
                        /\ lines[i].type = parts[1]
                        /\ lines[i].name = ModuleM
              THEN Instance(TypeMC) ELSE NoValue

RECURSIVE EngineLookup(_, _)
RECURSIVE EngineEval(_, _, _)
\* the value of a name at the end of `lines`: its last binding
EngineLookup(name, lines) ==
    LET at == { i \in 1..Len(lines) :
                  lines[i].kind \in {"annot", "assign"} /\ lines[i].name = name }
    IN  IF at = {}
        THEN (IF name = NameNone THEN Instance(NoneType) ELSE NoValue)
        ELSE LET i == CHOOSE x \in at : \A y \in at : y <= x
                 before == SubSeq(lines, 1, i - 1)
             IN  IF lines[i].kind = "annot"
                 THEN EngineResolveType(lines[i].type, before)
                 ELSE EngineEval(lines[i].value, Len(lines[i].value), before)

\* the value of the first k steps of an expression
EngineEval(steps, k, lines) ==
    IF k = 0 THEN NoValue
    ELSE LET st   == steps[k]
             prev == EngineEval(steps, k - 1, lines)
         IN  CASE st.op = "name" ->
                    IF k = 1 THEN EngineLookup(st.x, lines) ELSE EngineAttr(prev, st.x)
               [] st.op = "call" ->
                    IF prev.kind = "function" THEN Instance(prev.t) ELSE NoValue
               [] st.op = "index" -> EngineElement(prev)
               [] st.op = "nextiter" -> EngineElement(prev)
               [] OTHER -> NoValue

\* jedi.Script(code).infer(): the empty list, or the value at the end of the code
EngineInfer(lines, code) ==
    LET Names(v) == IF v.kind = "none" THEN <<>> ELSE <<v>> IN
    Names(EngineEval(code, Len(code), lines))

\* jedi.Script(code).complete(): the members after a trailing ".", or those that
\* start with the segment being typed
EngineComplete(lines, code) ==
    LET last == code[Len(code)]
        Members(base) ==
            IF base.kind # "instance" THEN {}
            ELSE IF last.op = "dot" THEN EngineMembers(base.t)
            ELSE IF last.op = "name"
                 THEN { mb \in EngineMembers(base.t) : StartsWith(mb.name, last.x) }
                 ELSE {}
    IN  IF Len(code) < 2 THEN {} ELSE Members(EngineEval(code, Len(code) - 1, lines))

(***************************************************************************)
(* parser.py: the synthetic unit and the expression translator             *)
(***************************************************************************)

\* dict[name] = var on a dict kept as the list of its entries, in insertion order
CtxSet(context, name, var) ==
    IF \E i \in 1..Len(context) : context[i].name = name
    THEN [i \in 1..Len(context) |->
            IF context[i].name = name THEN [name |-> name, var |-> var] ELSE context[i]]
    ELSE Append(context, [name |-> name, var |-> var])

CtxNames(context) == { context[i].name : i \in 1..Len(context) }

CtxGet(context, name) ==
    context[CHOOSE i \in 1..Len(context) : context[i].name = name].var

RECURSIVE CtxUpdate(_, _)
\* dict.update(other), other a dict kept as a function
CtxUpdate(context, other) ==
    IF DOMAIN other = {} THEN context
    ELSE LET name == CHOOSE x \in DOMAIN other : TRUE IN
         CtxUpdate(CtxSet(context, name, other[name]),
                   [x \in DOMAIN other \ {name} |-> other[x]])

RECURSIVE Replace(_, _, _)
\* str.replace(old, new), old not empty
Replace(str, old, new) ==
    IF old = <<>> \/ Len(str) < Len(old) THEN str
    ELSE IF SubSeq(str, 1, Len(old)) = old
         THEN new \o Replace(SubSeq(str, Len(old) + 1, Len(str)), old, new)
         ELSE <<Head(str)>> \o Replace(Tail(str), old, new)

RECURSIVE SplitAny(_, _)
\* re.split(r"\[|\]| |,", str)
SplitAny(str, seps) ==
    LET at == { i \in 1..Len(str) : str[i] \in seps } IN
    IF at = {} THEN <<str>>
    ELSE LET i == CHOOSE x \in at : \A y \in at : x <= y
         IN  <<SubSeq(str, 1, i - 1)>> \o SplitAny(SubSeq(str, i + 1, Len(str)), seps)

RECURSIVE JoinDots(_)
\* ".".join(segments)
JoinDots(segments) ==
    IF segments = <<>> THEN <<>>
    ELSE IF Len(segments) = 1 THEN segments[1]
    ELSE segments[1] \o <<46>> \o JoinDots(Tail(segments))

\* hashlib.md5(text).hexdigest(), as an injective map to hexadecimal digits
Md5Hex(text) ==
    LET hex(d) == IF d < 10 THEN 48 + d ELSE 87 + d IN
    Flatten([i \in 1..Len(text) |-> <<hex((text[i] \div 16) % 16), hex(text[i] % 16)>>])

\* the annotated declaration alone, without the import lines and the aliases
TypedDeclarationWithoutImports(variable_name, type) ==
    <<UnitLine("annot", variable_name, type, <<>>)>>

\* the import lines and the annotated declaration of one typed variable
TypedDeclaration(variable_name, type) ==
    LET imps == SetToSeq(Range(SplitAny(type, {91, 93, 32, 44})) \ {<<>>})
        RECURSIVE Walk(_, _, _)
        Walk(i, aliased, lines) ==
            IF i > Len(imps) THEN Append(lines, UnitLine("annot", variable_name, aliased, <<>>))
            ELSE LET parts == Split(imps[i], 46)
                     variable_import == JoinDots(SubSeq(parts, 1, Len(parts) - 1))
                     import_alias == <<95, 95>> \o Md5Hex(variable_import)
                 IN  IF variable_import = <<>> THEN Walk(i + 1, aliased, lines)
                     ELSE Walk(i + 1, Replace(aliased, variable_import, import_alias),
                               Append(lines, UnitLine("import", variable_import,
                                                      import_alias, <<>>)))
    IN  Walk(1, type, <<>>)

\* the search for the loop token in the first line alone
ForTokenInFirstLine(lines) ==
    lines # <<>> /\ \E j \in 1..Len(lines[1]) : lines[1][j].k = "for"

\* re.search(r"{% ?for ", self.document.source)
HasForToken(lines) ==
    \E i \in 1..Len(lines) : \E j \in 1..Len(lines[i]) : lines[i][j].k = "for"

\* script_lines with the value of a variable taken before its type
ScriptLinesValueFirst(context, lines) ==
    (IF HasForToken(lines) THEN <<UnitLine("class", ForLoopType, <<>>, <<>>)>> ELSE <<>>)
    \o Flatten([i \in 1..Len(context) |->
          LET name == context[i].name
              var  == context[i].var
          IN  IF var.value # <<>>
              THEN <<UnitLine("assign", name, <<>>, var.value)>>
              ELSE IF ~IsNone(var.type) /\ Val(var.type) # <<>>
                   THEN TypedDeclaration(name, Val(var.type))
                   ELSE <<UnitLine("assign", name, <<>>, <<Seg(NameNone)>>)>>])

\* create_jedi_script: script_lines before the user code
ScriptLines(context, lines) ==
    (IF HasForToken(lines) THEN <<UnitLine("class", ForLoopType, <<>>, <<>>)>> ELSE <<>>)
    \o Flatten([i \in 1..Len(context) |->
          LET name == context[i].name
              var  == context[i].var
          IN  IF ~IsNone(var.type) /\ Val(var.type) # <<>>
              THEN TypedDeclaration(name, Val(var.type))
              ELSE <<UnitLine("assign", name, <<>>,
                              IF var.value # <<>> THEN var.value ELSE <<Seg(NameNone)>>)>>])

\* join_path(res, seg): ".".join(filter(None, segments))
JoinPath(res, seg) == IF seg = <<>> THEN res ELSE Append(res, Seg(seg))

\* TemplateParser._django_variable_to_python, as the outcome of the call, on an engine
\* whose infer() raises for the expressions of `failing`: no statement of the function
\* catches what a probe raises.  `probes` lists the calls of infer() that the call has
\* made, each with its code and its answer.
VariableToPythonOutcome(variable, context, lines, execute_last_function, failing) ==
    LET segments == Split(variable, 46)
        RECURSIVE Walk(_, _, _, _)
        Walk(script, i, res, probes) ==
            LET seg == segments[i]
                code == JoinPath(res, seg)
                Probed(infer) ==
                    LET made == Append(probes, [code |-> code, infer |-> infer]) IN
                    IF infer = <<>>
                    THEN [ok |-> FALSE, raised |-> FALSE, res |-> res, probes |-> made]
                    ELSE IF /\ infer[1].kind = "function"
                            /\ (i = Len(segments) => execute_last_function)
                         THEN Walk(script, i + 1, Append(code, Call), made)
                         ELSE Walk(script, i + 1, code, made)
            IN  IF i > Len(segments)
                THEN [ok |-> TRUE, raised |-> FALSE, res |-> res, probes |-> probes]
                ELSE IF IsDigit(seg) /\ i > 1
                     THEN Walk(script, i + 1, Append(res, Index(seg)), probes)
                     ELSE IF code \in failing
                          THEN [ok |-> FALSE, raised |-> TRUE, res |-> res,
                                probes |-> Append(probes, [code |-> code, infer |-> <<>>])]
                          ELSE Probed(EngineInfer(script, code))
        Translated(w) ==
            [raised |-> w.raised,
             value  |-> IF w.raised THEN "Exception"
                        ELSE IF ~w.ok THEN RawExpr(variable)
                        ELSE IF variable[Len(variable)] = 46 THEN Append(w.res, Dot)
                        ELSE w.res,
             probes |-> w.probes]
    IN  IF variable = <<>> THEN [raised |-> FALSE, value |-> <<>>, probes |-> <<>>]
        ELSE Translated(Walk(ScriptLines(context, lines), 1, <<>>, <<>>))

\* TemplateParser._django_variable_to_python on an engine that answers every probe
_django_variable_to_python(variable, context, lines, execute_last_function) ==
    VariableToPythonOutcome(variable, context, lines, execute_last_function, {}).value

(***************************************************************************)
(* parser.py: TemplateParser.get_context                                   *)
(***************************************************************************)

\* the greatest element of a non-empty set of numbers
Max(S) == CHOOSE x \in S : \A y \in S : y <= x

\* whether a %} follows item i on the line
ClosedAfter(line, i) ==
    \E j \in (i + 1)..Len(line) : line[j].c /\ line[j].k \notin {"text", "var", "typecomment"}

\* re_type = r".*{# type (\w+) ?: ?(.*?) ?#}.*": the last closed type comment of the line
ReTypeMatch(line) ==
    LET at == { i \in 1..Len(line) : line[i].k = "typecomment" /\ line[i].c } IN
    IF at = {} THEN 0 ELSE Max(at)

\* re_start of "for" = r".*{% ?for ([\w ,]*) in ([\w.]+).*$": the last for tag of the
\* line that names an iterable, closed or not
ForStartMatch(line) ==
    LET at == { i \in 1..Len(line) : line[i].k = "for" /\ line[i].n # <<>> } IN
    IF at = {} THEN 0 ELSE Max(at)

\* re_end of "for" = r".*{% ?endfor"
ForEndMatch(line) == \E i \in 1..Len(line) : line[i].k = "endfor"

\* re_start of "with" = r".*{% ?with (.+) ?%}.*": the last with tag of the line that a
\* %} follows
WithStartMatch(line) ==
    LET at == { i \in 1..Len(line) :
                  line[i].k = "with" /\ (line[i].c \/ ClosedAfter(line, i)) } IN
    IF at = {} THEN 0 ELSE Max(at)

\* re_end of "with" = r".*{% ?endwith"
WithEndMatch(line) == \E i \in 1..Len(line) : line[i].k = "endwith"

\* re_as = r".*{%.*as ([\w ]+) %}.*$": the last closed tag of the line with an as clause
ReAsMatch(line) ==
    LET at == { i \in 1..Len(line) : line[i].c /\ line[i].as # <<>> } IN
    IF at = {} THEN 0 ELSE Max(at)

\* the number of lines the scope scan reads: "if line and line_idx > line: break"
ScannedLines(lines, line) ==
    IF line # 0 /\ line + 1 < Len(lines) THEN line + 1 ELSE Len(lines)

ScannedLinesToCursor(lines, line) ==
    IF line + 1 < Len(lines) THEN line + 1 ELSE Len(lines)

\* what one line does to the stack: the first of the scoped tags whose start or end
\* pattern matches the line decides, and a start pattern is tried before its end pattern
RECURSIVE ScopeScan(_, _, _, _)
ScopeScan(lines, i, last, stack) ==
    IF i > last THEN Return(stack)
    ELSE LET src_line == lines[i] IN
         IF ForStartMatch(src_line) # 0
         THEN ScopeScan(lines, i + 1, last,
                    Append(stack, [tag_name |-> "for", match |-> src_line[ForStartMatch(src_line)]]))
         ELSE IF ForEndMatch(src_line)
         THEN (IF stack = <<>> THEN Raise("IndexError")
               ELSE ScopeScan(lines, i + 1, last, SubSeq(stack, 1, Len(stack) - 1)))
         ELSE IF WithStartMatch(src_line) # 0
         THEN ScopeScan(lines, i + 1, last,
                    Append(stack, [tag_name |-> "with", match |-> src_line[WithStartMatch(src_line)]]))
         ELSE IF WithEndMatch(src_line)
         THEN (IF stack = <<>> THEN Raise("IndexError")
               ELSE ScopeScan(lines, i + 1, last, SubSeq(stack, 1, Len(stack) - 1)))
         ELSE ScopeScan(lines, i + 1, last, stack)

\* the bindings of one open frame, written into the context
FrameBindings(context, frame, lines) ==
    LET loop_vars == frame.match.args
        RECURSIVE Targets(_, _, _)
        Targets(variable, k, ctx) ==
            IF k > Len(loop_vars) THEN ctx
            ELSE Targets(variable, k + 1,
                    CtxSet(ctx, loop_vars[k],
                           Variable([value |-> variable \o <<NextIter, Index(Str(k - 1))>>])))
        Bound(ctx, variable) ==
            IF frame.tag_name = "for"
            THEN (IF Len(loop_vars) >= 2 THEN Targets(variable, 1, ctx)
                  ELSE CtxSet(ctx, IF loop_vars = <<>> THEN <<>> ELSE loop_vars[1],
                              Variable([value |-> Append(variable, NextIter)])))
            ELSE \* "with": one binding per assignment name=value
                 (IF frame.match.args = <<>> THEN ctx
                  ELSE CtxSet(ctx, frame.match.args[1], Variable([value |-> variable])))
        Translate(ctx) ==
            Bound(ctx, _django_variable_to_python(frame.match.n, ctx, lines, TRUE))
    IN  Translate(IF frame.tag_name = "for"
                  THEN CtxSet(context, NameForloop, Variable([type |-> Some(ForLoopType)]))
                  ELSE context)

RECURSIVE AllFrameBindings(_, _, _)
AllFrameBindings(context, stack, lines) ==
    IF stack = <<>> THEN context
    ELSE AllFrameBindings(FrameBindings(context, Head(stack), lines), Tail(stack), lines)

RECURSIVE TypeComments(_, _, _)
\* context[variable] = Variable(type=variable_type) for every line with a type comment
TypeComments(context, lines, i) ==
    IF i > Len(lines) THEN context
    ELSE LET m == ReTypeMatch(lines[i]) IN
         TypeComments(IF m = 0 THEN context
                      ELSE CtxSet(context, lines[i][m].n,
                                  Variable([type |-> Some(lines[i][m].args[1])])),
                      lines, i + 1)

RECURSIVE AsNames(_, _, _)
\* context[name] = Variable() for every name of an "as" clause, on every line
AsNames(context, lines, i) ==
    IF i > Len(lines) THEN context
    ELSE LET m == ReAsMatch(lines[i])
             names == IF m = 0 THEN <<>> ELSE lines[i][m].as
             RECURSIVE Put(_, _)
             Put(k, ctx) == IF k > Len(names) THEN ctx
                            ELSE Put(k + 1, CtxSet(ctx, names[k], Variable(EmptyDict)))
         IN  AsNames(Put(1, context), lines, i + 1)

\* the sources of get_context with the as names written before the open frames
ContextWithAsNamesFirst(index, doc, last) ==
    LET global == CtxUpdate(<<>>, index.global_template_context)
        seeded == IF /\ ~IsNone(doc.template_name)
                     /\ Val(doc.template_name) \in DOMAIN index.templates
                  THEN CtxUpdate(global, index.templates[Val(doc.template_name)].context)
                  ELSE global
        Scoped(typed, scan) ==
            IF scan.raised THEN scan
            ELSE Return(AllFrameBindings(AsNames(typed, doc.lines, 1), scan.value, doc.lines))
    IN  Scoped(TypeComments(seeded, doc.lines, 1), ScopeScan(doc.lines, 1, last, <<>>))

\* get_context around its scope scan: the global and the template context, the type
\* comments of every line, the bindings of the frames the scan left open, the as names
ContextAfterScan(index, doc, last) ==
    LET global == CtxUpdate(<<>>, index.global_template_context)
        seeded == IF /\ ~IsNone(doc.template_name)
                     /\ Val(doc.template_name) \in DOMAIN index.templates
                  THEN CtxUpdate(global, index.templates[Val(doc.template_name)].context)
                  ELSE global
        Scoped(typed, scan) ==
            IF scan.raised THEN scan
            ELSE Return(AsNames(AllFrameBindings(typed, scan.value, doc.lines), doc.lines, 1))
    IN  Scoped(TypeComments(seeded, doc.lines, 1), ScopeScan(doc.lines, 1, last, <<>>))

\* the index after a call whose writes go into the dict of the index itself
IndexSharingContext(index, context) ==
    [index EXCEPT !.global_template_context =
        [name \in CtxNames(context) |-> CtxGet(context, name)]]

\* the index after get_context has built `context`:
\* "context = self.workspace_index.global_template_context.copy()", every write of the
\* call goes into the copy and binds a new Variable, the dict of the index is as before
IndexAfterGetContext(index, context) == index

\* TemplateParser.get_context(line=..., character=...)
get_context(index, doc, line) == ContextAfterScan(index, doc, ScannedLines(doc.lines, line))

(***************************************************************************)
(* parser.py: tag, filter, type-comment and expression completions         *)
(***************************************************************************)

\* the word that follows {% in an item; none for text, {{ ... and {# ...
TagWord(item) ==
    CASE item.k \in {"tag", "tagname"} -> item.n
      [] item.k = "for" -> <<102, 111, 114>>
      [] item.k = "endfor" -> <<101, 110, 100, 102, 111, 114>>
      [] item.k = "with" -> <<119, 105, 116, 104>>
      [] item.k = "endwith" -> <<101, 110, 100, 119, 105, 116, 104>>
      [] item.k = "block" -> <<98, 108, 111, 99, 107>>
      [] item.k = "endblock" -> <<101, 110, 100, 98, 108, 111, 99, 107>>
      [] item.k = "load" -> <<108, 111, 97, 100>>
      [] item.k = "extends" -> <<101, 120, 116, 101, 110, 100, 115>>
      [] item.k = "include" -> <<105, 110, 99, 108, 117, 100, 101>>
      [] item.k = "url" -> <<117, 114, 108>>
      [] item.k = "static" -> <<115, 116, 97, 116, 105, 99>>
      [] item.k = "if" -> <<105, 102>>
      [] item.k = "endif" -> <<101, 110, 100, 105, 102>>
      [] item.k = "comment" -> <<99, 111, 109, 109, 101, 110, 116>>
      [] OTHER -> <<>>

\* tag_re = r"{% ?(\w+).*?%}" .findall(line): the word of every closed tag; a tag
\* still being typed runs on to the next %} of the line
ReTagFindall(line) ==
    LET RECURSIVE Words(_)
        Words(i) ==
            IF i > Len(line) THEN <<>>
            ELSE IF TagWord(line[i]) = <<>> THEN Words(i + 1)
            ELSE IF line[i].c THEN <<TagWord(line[i])>> \o Words(i + 1)
            ELSE IF ClosedAfter(line, i)
                 THEN <<TagWord(line[i])>> \o
                      Words(1 + CHOOSE j \in (i + 1)..Len(line) :
                                  /\ line[j].c
                                  /\ line[j].k \notin {"text", "var", "typecomment"}
                                  /\ \A h \in (i + 1)..(j - 1) :
                                        ~(line[h].c /\ line[h].k \notin {"text", "var", "typecomment"}))
                 ELSE Words(i + 1)
    IN  Words(1)

\* the orders in which a Python set of library names may be iterated
Orders(S) == { o \in [1..Cardinality(S) -> S] : Range(o) = S }

\* {tag.name: tag for lib_name in loaded for tag in libraries.get(lib_name).tags.values()}
AvailableTags(index, lib_order) ==
    LET tags == Flatten([i \in 1..Len(lib_order) |->
                    LET lib == index.libraries[lib_order[i]] IN
                    [j \in 1..Cardinality(DOMAIN lib.tags) |->
                        lib.tags[SetToSeq(DOMAIN lib.tags)[j]]]])
        RECURSIVE Put(_, _)
        Put(i, acc) ==
            IF i > Len(tags) THEN acc
            ELSE Put(i + 1,
                     IF \E h \in 1..Len(acc) : acc[h].name = tags[i].name
                     THEN [h \in 1..Len(acc) |->
                             IF acc[h].name = tags[i].name THEN tags[i] ELSE acc[h]]
                     ELSE Append(acc, tags[i]))
    IN  Put(1, <<>>)

\* TemplateParser.get_tag_completions
get_tag_completions(index, lines, line, prefix, lib_order) ==
    IF \E i \in 1..Len(lib_order) : lib_order[i] \notin DOMAIN index.libraries
    THEN Raise("AttributeError")
    ELSE
    LET available == AvailableTags(index, lib_order)
        above     == IF line < Len(lines) THEN line ELSE Len(lines)
        words     == Flatten([i \in 1..above |-> ReTagFindall(lines[i])])
        known(wd) == \E h \in 1..Len(available) : available[h].name = wd
        collected == Flatten([i \in 1..Len(words) |->
                        IF known(words[i])
                        THEN <<available[CHOOSE h \in 1..Len(available) :
                                             available[h].name = words[i]]>>
                        ELSE <<>>])
        generic   == [i \in 1..Len(available) |->
                        CompletionItem(available[i].name,
                                       Some(RankedSortText(999, available[i].name)),
                                       "Keyword", available[i].docs, None)]
        near      == Reversed(collected)
        inner(tag) == Flatten([i \in 1..(Len(tag.inner_tags) + 1) |->
                         IF i <= Len(tag.inner_tags)
                         THEN (IF tag.inner_tags[i] = <<>> THEN <<>> ELSE <<tag.inner_tags[i]>>)
                         ELSE (IF IsNone(tag.closing_tag) \/ Val(tag.closing_tag) = <<>>
                               THEN <<>> ELSE <<Val(tag.closing_tag)>>)])
        RECURSIVE PutNames(_, _, _)
        PutNames(names, rank, items) ==
            IF names = <<>> THEN items
            ELSE PutNames(Tail(names), rank,
                    SetDefault(items,
                        CompletionItem(Head(names), Some(RankedSortText(rank, Head(names))),
                                       "Keyword", None, None)))
        RECURSIVE PutTags(_, _)
        PutTags(i, items) ==
            IF i > Len(near) THEN items
            ELSE PutTags(i + 1, PutNames(inner(near[i]), i - 1, items))
    IN  Return(FilterPrefix(PutTags(1, generic), prefix))

\* the filters of every library of the index, loaded or not
FilterCompletionsOfEveryLibrary(index, prefix, lib_order) ==
    FilterPrefix(
        Flatten([i \in 1..Cardinality(DOMAIN index.libraries) |->
            LET filters == index.libraries[SetToSeq(DOMAIN index.libraries)[i]].filters
                names   == SetToSeq(DOMAIN filters)
            IN  [j \in 1..Len(names) |->
                   CompletionItem(filters[names[j]].name, None, "Function",
                                  Some(filters[names[j]].docs), None)]]),
        prefix)

\* TemplateParser.get_filter_completions
get_filter_completions(index, prefix, lib_order) ==
    FilterPrefix(
        Flatten([i \in 1..Len(lib_order) |->
            IF lib_order[i] \in DOMAIN index.libraries
            THEN LET filters == index.libraries[lib_order[i]].filters
                     names   == SetToSeq(DOMAIN filters)
                 IN  [j \in 1..Len(names) |->
                        CompletionItem(filters[names[j]].name, None, "Function",
                                       Some(filters[names[j]].docs), None)]
            ELSE <<>>]),
        prefix)

\* str.lower()
Lower(str) == [i \in 1..Len(str) |-> IF str[i] \in 65..90 THEN str[i] + 32 ELSE str[i]]

\* _jedi_type_to_completion_kind
JediTypeToCompletionKind(comp_type) ==
    CASE comp_type = "class" -> "Class"
      [] comp_type \in {"instance", "param", "statement"} -> "Variable"
      [] comp_type = "keyword" -> "Keyword"
      [] comp_type = "module" -> "Module"
      [] comp_type = "path" -> "File"
      [] comp_type = "property" -> "Property"
      [] comp_type = "function" -> "Function"
      [] OTHER -> "Field"

\* a jedi Completion: its name, its type and what docstring() returns
Completion(base, member) ==
    [name |-> member.name, type |-> member.value.kind,
     docstring |-> base \o <<46>> \o member.name]

\* RE_TAGS_NO_CONTEXT = r"{% ?(end.*|comment|csrf_token|debug|spaceless)"
TagsNoContext(item) ==
    item.k \in {"endfor", "endwith", "endblock", "endif", "comment", "csrf_token",
                "debug", "spaceless"}

\* TemplateParser.get_context_completions; .cached is what the call writes into
\* _MOST_RECENT_COMPLETIONS
get_context_completions(index, doc, line, opener, prefix) ==
    LET sort_text(comp) ==
            Lower((IF comp.type = "statement" THEN <<49>>
                   ELSE IF comp.type = "property" THEN <<50>> ELSE <<57>>)
                  \o <<45>> \o comp.name)
        Offered(comps) ==
            [raised |-> FALSE,
             value  |-> SetToSeq({ CompletionItem(comp.name, Some(sort_text(comp)),
                                       JediTypeToCompletionKind(comp.type), None, None) :
                                   comp \in comps }),
             cached |-> [name \in { comp.name : comp \in comps } |->
                           CHOOSE comp \in comps : comp.name = name]]
        Members(script, code) ==
            LET base == IF Len(code) < 2 THEN NoValue
                        ELSE EngineEval(code, Len(code) - 1, script)
            IN  Offered({ Completion(base.t, mb) :
                            mb \in { x \in EngineComplete(script, code) : x.name[1] # 95 } })
        Names(context) ==
            [raised |-> FALSE,
             value  |-> FilterPrefix(
                           [i \in 1..Len(context) |->
                               LET e == context[i] IN
                               [label |-> e.name, sort_text |-> Some(Lower(e.name)),
                                kind |-> "Variable", documentation |-> Some(e.var.docs),
                                detail |-> Some(e.name \o <<58, 32>> \o
                                                (IF IsNone(e.var.type) THEN NameNone
                                                 ELSE Val(e.var.type)))]],
                           prefix),
             cached |-> EmptyDict]
        Resolved(context) ==
            IF context.raised
            THEN [raised |-> TRUE, value |-> context.value, cached |-> EmptyDict]
            ELSE IF 46 \in Range(prefix)
            THEN Members(ScriptLines(context.value, doc.lines),
                         _django_variable_to_python(prefix, context.value, doc.lines, TRUE))
            ELSE Names(context.value)
    IN  IF TagsNoContext(opener)
        THEN [raised |-> FALSE, value |-> <<>>, cached |-> EmptyDict]
        ELSE Resolved(get_context(index, doc, line))

\* TemplateParser.get_type_comment_complations: the engine's import completion of the
\* typed path, after the context is resolved for the unit
get_type_comment_complations(index, doc, line, prefix) ==
    LET parts == Split(prefix, 46)
        from_part == JoinDots(SubSeq(parts, 1, Len(parts) - 1))
        import_part == parts[Len(parts)]
        names == IF 46 \in Range(prefix)
                 THEN (IF from_part = ModuleM
                       THEN { [name |-> <<67>>, type |-> "class"] } ELSE {})
                 ELSE { [name |-> ModuleM, type |-> "module"] }
        Resolved(context) ==
            IF context.raised THEN context
            ELSE Return(SetToSeq({ CompletionItem(nm.name, None,
                                       JediTypeToCompletionKind(nm.type), None, None) :
                                   nm \in { x \in names : StartsWith(x.name, import_part) } }))
    IN  Resolved(get_context(index, doc, line))

(***************************************************************************)
(* parser.py: TemplateParser.completions, the ordered matchers             *)
(***************************************************************************)

\* an item that holds "{{" or "{% <word> ": what group 1 of the expression pattern
\* r".*({{|{% \w+ ).*?([\w\d_\.]*)$" can match
HasOpener(item) == item.k \notin {"text", "tagname", "typecomment", "rest"}

\* self.document.lines[line][:character]: the items before the cursor; word characters
\* that end the slice continue the construct that is being typed before them
LineFragment(src, character) ==
    LET cut == SubSeq(src, 1, IF character < Len(src) THEN character ELSE Len(src))
        n == Len(cut)
    IN  IF n >= 2 /\ cut[n].k = "rest" /\ ~cut[n - 1].c
        THEN SubSeq(cut, 1, n - 2) \o <<[cut[n - 1] EXCEPT !.n = @ \o cut[n].n]>>
        ELSE cut

\* group 2 of the expression pattern: the run of word characters and dots that ends
\* the fragment
TypedWord(f) ==
    IF f.c THEN <<>>
    ELSE IF f.k = "for" /\ f.n = <<>>
         THEN (IF f.args = <<>> THEN <<>> ELSE f.args[Len(f.args)])
         ELSE f.n

\* the handler outcome without a cache write
NoCache(r) == [raised |-> r.raised, value |-> r.value, cached |-> EmptyDict]

\* a pattern that ends with the construct being typed, r".*{% ?load ([\w ]*)$" and the
\* like: the fragment ends in an open construct of one of the kinds
TypingAtEnd(fragment, kinds) ==
    /\ fragment # <<>>
    /\ ~fragment[Len(fragment)].c
    /\ fragment[Len(fragment)].k \in kinds

\* the expression pattern r".*({{|{% \w+ ).*?([\w\d_\.]*)$": an opener anywhere in the
\* fragment
ExpressionMatch(fragment) == \E i \in 1..Len(fragment) : HasOpener(fragment[i])

\* the matchers of completions(), in their order: whether each pattern matches the
\* fragment
CompletionMatchers(fragment) ==
    << TypingAtEnd(fragment, {"load"}),
       TypingAtEnd(fragment, {"block"}),
       TypingAtEnd(fragment, {"endblock"}),
       TypingAtEnd(fragment, {"url"}),
       TypingAtEnd(fragment, {"static"}),
       TypingAtEnd(fragment, {"extends", "include"}),
       TypingAtEnd(fragment, {"tagname"}),
       TypingAtEnd(fragment, {"filter"}),
       TypingAtEnd(fragment, {"typecomment"}),
       ExpressionMatch(fragment) >>

\* the last matcher that matches, 0 when none does
LastMatch(matches) ==
    LET at == { i \in 1..Len(matches) : matches[i] } IN
    IF at = {} THEN 0 ELSE CHOOSE i \in at : \A j \in at : j <= i

\* "for regex, handler in matchers: if match := regex.match(line_fragment): return
\* handler(...)": the first matcher that matches, 0 when the loop ends without one
FirstMatch(matches) ==
    LET at == { i \in 1..Len(matches) : matches[i] } IN
    IF at = {} THEN 0 ELSE CHOOSE i \in at : \A j \in at : i <= j

\* the matchers of completions(), tried in order on the fragment before the cursor
CompletionMatch(index, doc, line, fragment, lib_order) ==
    LET f == fragment[Len(fragment)]
        openers == { i \in 1..Len(fragment) : HasOpener(fragment[i]) }
        first == FirstMatch(CompletionMatchers(fragment))
    IN  CASE first = 1 -> NoCache(Return(get_load_completions(index, f.n)))
          [] first = 2 -> NoCache(get_block_completions(index, doc.lines, f.n))
          [] first = 3 -> NoCache(Return(get_endblock_completions(doc.lines, line, f.n)))
          [] first = 4 -> NoCache(Return(get_url_completions(index, f.n)))
          [] first = 5 -> NoCache(Return(get_static_completions(index, f.n)))
          [] first = 6 -> NoCache(Return(get_template_completions(index, f.n)))
          [] first = 7 ->
                NoCache(get_tag_completions(index, doc.lines, line, f.n, lib_order))
          [] first = 8 -> NoCache(Return(get_filter_completions(index, f.n, lib_order)))
          [] first = 9 ->
                NoCache(get_type_comment_complations(index, doc, line, f.args[1]))
          [] first = 10 ->
                get_context_completions(index, doc, line, fragment[Max(openers)],
                                        TypedWord(f))
          [] OTHER -> NoCache(Return(<<>>))

\* TemplateParser.completions(line, character): the handler of the first matcher that
\* matches, its result sorted
completions(index, doc, line, character, lib_order) ==
    LET src == doc.lines[line + 1]
        fragment == LineFragment(src, character)
        SortedResult(r) ==
            IF r.raised THEN r
            ELSE [raised |-> FALSE, value |-> Sorted(r.value), cached |-> r.cached]
    IN  IF line >= Len(doc.lines) THEN NoCache(Raise("IndexError"))
        ELSE SortedResult(CompletionMatch(index, doc, line, fragment, lib_order))

(***************************************************************************)
(* parser.py: hover and goto definition                                    *)
(***************************************************************************)

\* Hover(contents=...)
Hover(contents) == [contents |-> contents]

\* _get_full_hover_name / _get_full_definition_name: the typed part plus the word
\* characters that follow the cursor (an item of kind "rest")
FullName(src, character, first_part) ==
    IF character < Len(src) /\ src[character + 1].k = "rest" /\ src[character + 1].n # <<>>
    THEN first_part \o src[character + 1].n
    ELSE first_part

\* jedi.Script(...).help(): the names at the end of the code
EngineHelp(lines, code) == EngineInfer(lines, code)

\* TemplateParser.get_url_hover
get_url_hover(index, src, character, first_part) ==
    LET full_match == FullName(src, character, first_part) IN
    IF full_match \in DOMAIN index.urls
    THEN Some(Hover(index.urls[full_match].docs)) ELSE None

\* TemplateParser.get_filter_hover
get_filter_hover(index, doc, src, character, first_part) ==
    LET filter_name == FullName(src, character, first_part)
        libs == { l \in DOMAIN index.libraries :
                    /\ index.libraries[l].name \in loaded_libraries(index, doc.lines)
                    /\ filter_name \in DOMAIN index.libraries[l].filters }
    IN  { Some(Hover(index.libraries[l].filters[filter_name].docs)) : l \in libs }

\* TemplateParser.get_tag_hover
get_tag_hover(index, doc, src, character, first_part) ==
    LET tag_name == FullName(src, character, first_part)
        libs == { l \in DOMAIN index.libraries :
                    /\ index.libraries[l].name \in loaded_libraries(index, doc.lines)
                    /\ tag_name \in DOMAIN index.libraries[l].tags }
    IN  { Some(Hover(index.libraries[l].tags[tag_name].docs)) : l \in libs }

\* TemplateParser.get_context_hover
get_context_hover(index, doc, line, src, character, first_part) ==
    LET context_name == FullName(src, character, first_part)
        Helped(hlp) ==
            IF hlp # <<>>
            THEN Return(Some(Hover([variable |-> context_name, type |-> hlp[1].t,
                                    docs |-> <<>>])))
            ELSE Return(None)
        Resolved(context) ==
            IF context.raised THEN context
            ELSE IF /\ context_name \in CtxNames(context.value)
                    /\ ~IsNone(CtxGet(context.value, context_name).type)
                    /\ Val(CtxGet(context.value, context_name).type) # <<>>
            THEN Return(Some(Hover([variable |-> context_name,
                                    type |-> Val(CtxGet(context.value, context_name).type),
                                    docs |-> CtxGet(context.value, context_name).docs])))
            ELSE Helped(EngineHelp(ScriptLines(context.value, doc.lines),
                            _django_variable_to_python(context_name, context.value,
                                                       doc.lines, FALSE)))
    IN  Resolved(get_context(index, doc, line))

\* the matchers of hover(), in their order
HoverMatchers(fragment) ==
    << TypingAtEnd(fragment, {"url"}),
       TypingAtEnd(fragment, {"filter"}),
       TypingAtEnd(fragment, {"tagname"}),
       ExpressionMatch(fragment) >>

\* TemplateParser.hover(line, character): the outcomes the call can have (the order
\* in which two libraries that define the same name are visited is the index's)
hover(index, doc, line, character) ==
    IF line >= Len(doc.lines) THEN { Raise("IndexError") }
    ELSE LET src == doc.lines[line + 1]
             fragment == LineFragment(src, character)
             f == fragment[Len(fragment)]
             found(S) == IF S = {} THEN { Return(None) } ELSE { Return(h) : h \in S }
             first == FirstMatch(HoverMatchers(fragment))
         IN  CASE first = 1 -> { Return(get_url_hover(index, src, character, f.n)) }
               [] first = 2 -> found(get_filter_hover(index, doc, src, character, f.n))
               [] first = 3 -> found(get_tag_hover(index, doc, src, character, f.n))
               [] first = 4 ->
                     { get_context_hover(index, doc, line, src, character, TypedWord(f)) }
               [] OTHER -> { Return(None) }

\* Location(uri=f"file://{root}/{path}", range=line:0)
Location(root, path, line) == [root |-> root, path |-> path, line |-> line]

SelectorSrc == <<115, 114, 99>>

\* TemplateParser.create_location(*parts): TypeError unless three parts are given,
\* ValueError from int(line) unless the line is a number
create_location(index, parts) ==
    IF Len(parts) # 3 THEN Raise("TypeError")
    ELSE IF ~IsDigit(parts[3]) THEN Raise("ValueError")
    ELSE Return(Some(Location(IF parts[1] = SelectorSrc THEN index.src_path
                              ELSE index.env_path,
                              parts[2], parts[3])))

\* TemplateParser.get_template_definition
get_template_definition(index, src, character, first_part) ==
    IF ~(character < Len(src) /\ src[character + 1].k = "rest" /\ src[character + 1].c)
    THEN Return(None)
    ELSE LET template_name == first_part \o src[character + 1].n IN
         IF template_name \notin DOMAIN index.templates THEN Return(None)
         ELSE LET parts == Split(index.templates[template_name].path, 58) IN
              IF Len(parts) # 2 THEN Raise("ValueError")
              ELSE create_location(index, <<parts[1], parts[2], <<48>>>>)

\* TemplateParser.get_url_definition
get_url_definition(index, src, character, first_part) ==
    LET full_match == FullName(src, character, first_part) IN
    IF full_match \in DOMAIN index.urls /\ index.urls[full_match].source # <<>>
    THEN create_location(index, Split(index.urls[full_match].source, 58))
    ELSE Return(None)

\* TemplateParser.get_tag_definition / get_filter_definition (field "tags" or
\* "filters"): the first loaded library, in the order given, that has the name with a
\* source decides
RECURSIVE LibraryDefinition(_, _, _, _)
LibraryDefinition(index, field, full_match, lib_order) ==
    IF lib_order = <<>> THEN Return(None)
    ELSE IF Head(lib_order) \notin DOMAIN index.libraries THEN Raise("KeyError")
    ELSE LET entries == index.libraries[Head(lib_order)][field] IN
         IF full_match \in DOMAIN entries /\ entries[full_match].source # <<>>
         THEN create_location(index, Split(entries[full_match].source, 58))
         ELSE LibraryDefinition(index, field, full_match, Tail(lib_order))

\* the module name of the unit that create_jedi_script hands to the engine
MainModule == <<95, 95, 109, 97, 105, 110, 95, 95>>

\* a name that the engine reports: the module that defines it, that module's path
\* (none for the unit, which is no file) and the value of the name
EngineName(module_name, module_path, value) ==
    [module_name |-> module_name, module_path |-> module_path, value |-> value]

\* the definition of a class of the engine's world or of one of its members: in the
\* unit for the class that the unit itself declares, in a file of its own otherwise
DefinedIn(t, value) ==
    IF t = ForLoopType THEN EngineName(MainModule, None, value)
    ELSE EngineName(t, Some(t), value)

\* jedi.Script(code).goto(): the definition of the name that ends the code (the
\* called name when the code ends with a call): a name that the unit binds is defined
\* in the unit, a member where its class is, anything else nowhere
EngineGoto(lines, code) ==
    LET last == IF code # <<>> /\ code[Len(code)].op = "call" THEN Len(code) - 1
                ELSE Len(code)
        value == EngineEval(code, last, lines)
        owner == EngineEval(code, last - 1, lines)
        bound == \E i \in 1..Len(lines) :
                    lines[i].kind \in {"annot", "assign"} /\ lines[i].name = code[last].x
    IN  IF last = 0 \/ code[last].op # "name" THEN <<>>
        ELSE IF last = 1
             THEN (IF bound THEN <<EngineName(MainModule, None, value)>>
                   ELSE IF value.kind = "none" THEN <<>>
                   ELSE <<DefinedIn(value.t, value)>>)
             ELSE IF value.kind = "none" THEN <<>>
             ELSE <<DefinedIn(owner.t, value)>>

\* Name.infer(): the definitions of what the name stands for: the class of an
\* instance, the function itself, nothing when the engine has no value for the name
EngineInferName(name) ==
    CASE name.value.kind = "instance" -> <<DefinedIn(name.value.t, name.value)>>
      [] name.value.kind = "function" -> <<name>>
      [] OTHER -> <<>>

\* Location(uri=f"file://{goto.module_path}", range=goto.line:goto.column)
NameLocation(name) == Location("", name.module_path, <<48>>)

\* TemplateParser.get_context_definition
get_context_definition(index, doc, line, src, character, first_match) ==
    LET full_match == FullName(src, character, first_match)
        Located(gotos) ==
            IF gotos = <<>> THEN Return(None)
            ELSE IF gotos[1].module_name = MainModule
                 THEN (IF EngineInferName(gotos[1]) # <<>>
                       THEN Return(Some(NameLocation(EngineInferName(gotos[1])[1])))
                       ELSE Return(None))
                 ELSE Return(Some(NameLocation(gotos[1])))
        Resolved(context) ==
            IF context.raised THEN context
            ELSE Located(EngineGoto(ScriptLines(context.value, doc.lines),
                            _django_variable_to_python(full_match, context.value,
                                                       doc.lines, TRUE)))
    IN  Resolved(get_context(index, doc, line))

\* the matchers of goto_definition(), in their order
DefinitionMatchers(fragment) ==
    << TypingAtEnd(fragment, {"extends", "include"}),
       TypingAtEnd(fragment, {"url"}),
       TypingAtEnd(fragment, {"tagname"}),
       TypingAtEnd(fragment, {"filter"}),
       ExpressionMatch(fragment) >>

\* the number of the matcher whose handler a call of completions, hover or
\* goto_definition runs, 0 when it runs none
HandlerOf(doc, line, character, op) ==
    LET fragment == LineFragment(doc.lines[line + 1], character) IN
    IF line >= Len(doc.lines) THEN 0
    ELSE CASE op = "completions" -> FirstMatch(CompletionMatchers(fragment))
           [] op = "hover" -> FirstMatch(HoverMatchers(fragment))
           [] op = "goto_definition" -> FirstMatch(DefinitionMatchers(fragment))

\* TemplateParser.goto_definition(line, character)
goto_definition(index, doc, line, character, lib_order) ==
    IF line >= Len(doc.lines) THEN Raise("IndexError")
    ELSE LET src == doc.lines[line + 1]
             fragment == LineFragment(src, character)
             f == fragment[Len(fragment)]
             first == FirstMatch(DefinitionMatchers(fragment))
         IN  CASE first = 1 -> get_template_definition(index, src, character, f.n)
               [] first = 2 -> get_url_definition(index, src, character, f.n)
               [] first = 3 ->
                     LibraryDefinition(index, "tags", FullName(src, character, f.n),
                                       lib_order)
               [] first = 4 ->
                     LibraryDefinition(index, "filters", FullName(src, character, f.n),
                                       lib_order)
               [] first = 5 ->
                     get_context_definition(index, doc, line, src, character, TypedWord(f))
               [] OTHER -> Return(None)

(***************************************************************************)
(* parser.py: resolve_completion; server.py: the request handlers          *)
(***************************************************************************)

\* the text of a jedi completion type
TypeText(type) ==
    CASE type = "function" -> <<102, 117, 110, 99, 116, 105, 111, 110>>
      [] type = "instance" -> <<105, 110, 115, 116, 97, 110, 99, 101>>
      [] OTHER -> <<>>

\* "not item.documentation": None and "" are falsy
NoDocumentation(item) == IsNone(item.documentation) \/ Val(item.documentation) = <<>>

\* TemplateParser.resolve_completion(item)
resolve_completion(cache, item) ==
    IF NoDocumentation(item) /\ item.label \in DOMAIN cache
    THEN Return([item EXCEPT
                   !.detail = Some(<<40>> \o TypeText(cache[item.label].type) \o <<41, 32>>
                                   \o cache[item.label].name),
                   !.documentation = Some(cache[item.label].docstring)])
    ELSE Return(item)

\* server.py completion_item_resolve(ls, item): _MOST_RECENT_COMPLETIONS[item.label]
\* is a plain subscript
completion_item_resolve(cache, item) ==
    IF ~NoDocumentation(item) THEN Return(item)
    ELSE IF item.label \notin DOMAIN cache THEN Raise("KeyError")
    ELSE Return([item EXCEPT
                   !.detail = Some(cache[item.label].name \o <<58, 32>>
                                   \o TypeText(cache[item.label].type)),
                   !.documentation = Some(cache[item.label].docstring)])

\* CompletionList(is_incomplete=False, items=items)
CompletionList(items) == [is_incomplete |-> FALSE, items |-> items]

ExceptNothing(out) == out

\* try: return <the parser call> / except Exception as e: logger.error(e); return None
TryExcept(out) == IF out.raised THEN Return(None) ELSE out

(***************************************************************************)
(* The state machine.  A call is one action: it reads the index and the    *)
(* document, writes _MOST_RECENT_COMPLETIONS if the code does, and leaves  *)
(* what it returned in `result`.  Calls are served one at a time: the next *)
(* one starts after the result has been delivered.                         *)
(***************************************************************************)

\* the longest document, in lines
MaxLines == 3

\* the greatest cursor column, counted in items of the line
MaxCharacter == 2

\* the number of templates of a generated template map
MaxTemplates == 3

Idle == [op |-> "idle"]

\* every document of at most MaxLines lines over a set of lines
Lines(LineSet) == UNION { [1..n -> LineSet] : n \in 0..MaxLines }

\* WorkspaceIndex(src_path=..., env_path=...) then update(django_data)
IndexOf(django_data) ==
    Update([EmptyIndex EXCEPT !.src_path = "/project/src", !.env_path = "/project/env"],
           django_data)

\* the server state that the parser's calls leave alone
ServerAtRest ==
    /\ is_initialized = FALSE
    /\ current_file_watcher_globs = <<>>
    /\ threads = <<>>
    /\ shown_messages = <<>>
    /\ cache_file = [cache |-> FALSE, data |-> None]

\* the caller takes the returned value
Deliver ==
    /\ result.op # "idle"
    /\ result' = Idle
    /\ UNCHANGED <<workspace_index, document, _MOST_RECENT_COMPLETIONS, is_initialized,
                   current_file_watcher_globs, threads, shown_messages,
                   cache_file>>

\* dict writes of one call into _MOST_RECENT_COMPLETIONS
CacheWrite(cache, cached) ==
    [l \in DOMAIN cache \cup DOMAIN cached |->
        IF l \in DOMAIN cached THEN cached[l] ELSE cache[l]]

\* TemplateParser(...)._recursive_block_names(template_name)
ParserRecursiveBlockNames(template_name) ==
    /\ result.op = "idle"
    /\ result' = [op |-> "_recursive_block_names", template_name |-> template_name,
                  out |-> _recursive_block_names(workspace_index, template_name, <<>>)]
    /\ UNCHANGED <<workspace_index, document, _MOST_RECENT_COMPLETIONS, is_initialized,
                   current_file_watcher_globs, threads, shown_messages,
                   cache_file>>

\* TemplateParser(...).completions(line, character)
ParserCompletions(line, character) ==
    LET Returned(r) ==
            /\ result' = [op |-> "completions", line |-> line, character |-> character,
                          handler |-> HandlerOf(document, line, character, "completions"),
                          out |-> [raised |-> r.raised, value |-> r.value]]
            /\ _MOST_RECENT_COMPLETIONS' = CacheWrite(_MOST_RECENT_COMPLETIONS, r.cached)
    IN  /\ result.op = "idle"
        /\ \E lib_order \in Orders(loaded_libraries(workspace_index, document.lines)) :
              Returned(completions(workspace_index, document, line, character, lib_order))
        /\ UNCHANGED <<workspace_index, document, is_initialized,
                       current_file_watcher_globs, threads, shown_messages,
                       cache_file>>

(***************************************************************************)
(* Template maps and the extends chain                                     *)
(***************************************************************************)

TplX == <<120>>

TemplateNames == Range(SubSeq(<<TplP, TplQ, TplR, <<115>>>>, 1, MaxTemplates))

\* one template entry of the collector data; the "blocks" key may be missing
TemplateOptions(extends, blocks) ==
    [k \in {"path", "extends"} \cup (IF IsNone(blocks) THEN {} ELSE {"blocks"}) |->
        CASE k = "path" -> <<>>
          [] k = "extends" -> extends
          [] k = "blocks" -> Val(blocks)]

\* every template map over TemplateNames: a template extends nothing, a template of
\* the map (itself included) or a template that is not in the map
GeneratedTemplates ==
    [TemplateNames ->
        { TemplateOptions(e, b) :
            e \in {None} \cup { Some(n) : n \in TemplateNames \cup {TplX} },
            b \in {None, Some(<<NameA>>), Some(<<NameB, NameAB>>)} }]

InitExtends ==
    /\ \E templates \in GeneratedTemplates :
          workspace_index = IndexOf([templates |-> templates])
    /\ document = [template_name |-> None, lines |-> <<>>]
    /\ result = Idle
    /\ _MOST_RECENT_COMPLETIONS = EmptyDict
    /\ ServerAtRest

NextExtends ==
    \/ \E template_name \in TemplateNames \cup {TplX} :
          ParserRecursiveBlockNames(template_name)
    \/ Deliver

SpecExtends == InitExtends /\ [][NextExtends]_vars

RECURSIVE ExtendsChain(_, _, _)
\* the templates of the map met by following extends from a template, each once
ExtendsChain(index, name, seen) ==
    IF name \in seen \/ name \notin DOMAIN index.templates THEN seen
    ELSE LET template == index.templates[name] IN
         IF IsNone(template.extends) THEN seen \cup {name}
         ELSE ExtendsChain(index, Val(template.extends), seen \cup {name})

\* the block names of the templates of the chain
ChainBlockNames(index, name) ==
    UNION { IF IsNone(index.templates[t].blocks) THEN {}
            ELSE Range(Val(index.templates[t].blocks)) :
            t \in ExtendsChain(index, name, {}) }

\* C7: for every template map, cycles and self-extension included, the call
\* _recursive_block_names(start) returns (it does not raise), it has looked up no
\* template twice, and what it returns is exactly the set of the block names of the
\* templates reachable along the extends chain from the start template.
C7_BlockNamesOfExtendsChain ==
    result.op = "_recursive_block_names" =>
        /\ ~result.out.raised
        /\ \A i, j \in 1..Len(result.out.looked) :
              result.out.looked[i] = result.out.looked[j] => i = j
        /\ result.out.value = ChainBlockNames(workspace_index, result.template_name)

\* a call that started at a template of a cycle returned
C7_CycleReturned ==
    /\ result.op = "_recursive_block_names"
    /\ ~result.out.raised
    /\ Cardinality(ExtendsChain(workspace_index, result.template_name, {})) >= 2
    /\ \E t \in ExtendsChain(workspace_index, result.template_name, {}) :
          workspace_index.templates[t].extends = Some(result.template_name)

(***************************************************************************)
(* Block and end-block completion                                          *)
(***************************************************************************)

\* q extends p, and both list their blocks
TemplatesChain ==
    (TplP :> TemplateOptions(None, Some(<<NameA, NameAB, NameC>>)))
    @@ (TplQ :> TemplateOptions(Some(TplP), Some(<<NameB>>)))

\* p and q extend each other
TemplatesCycle ==
    (TplP :> TemplateOptions(Some(TplQ), Some(<<NameA, NameAB>>)))
    @@ (TplQ :> TemplateOptions(Some(TplP), Some(<<NameB>>)))

\* q has no "blocks" key, as "blog/list.html" of the test index
TemplatesNoBlocks ==
    (TplP :> TemplateOptions(None, Some(<<NameA>>)))
    @@ (TplQ :> TemplateOptions(Some(TplP), None))

BlockLines ==
    { <<Tag("extends", TplQ, <<>>)>>,
      <<Tag("block", NameA, <<>>)>>,
      <<Tag("block", NameA, <<>>), Tag("block", NameB, <<>>)>>,
      <<Typing("block", NameA, <<>>)>>,
      <<Tag("block", NameAB, <<>>), Typing("block", <<>>, <<>>)>>,
      <<Typing("endblock", <<>>, <<>>)>> }

InitBlocks ==
    /\ \E templates \in {TemplatesChain, TemplatesCycle, TemplatesNoBlocks} :
          workspace_index = IndexOf([templates |-> templates])
    /\ \E lines \in Lines(BlockLines) :
          document = [template_name |-> None, lines |-> lines]
    /\ result = Idle
    /\ _MOST_RECENT_COMPLETIONS = EmptyDict
    /\ ServerAtRest

NextBlocks ==
    \/ \E line \in 0..(MaxLines - 1), character \in 0..MaxCharacter :
          ParserCompletions(line, character)
    \/ Deliver

SpecBlocks == InitBlocks /\ [][NextBlocks]_vars

\* the item the cursor of the returned call is at the end of: the last item of the
\* line before the cursor column (a closed text item when there is none)
CursorItem ==
    LET src == document.lines[result.line + 1]
        k   == IF result.character < Len(src) THEN result.character ELSE Len(src)
    IN  IF k = 0 THEN Text ELSE src[k]

\* completions() returned for a cursor at the end of an open tag of the given kind
Completed(kind) ==
    /\ result.op = "completions"
    /\ ~result.out.raised
    /\ ~CursorItem.c
    /\ CursorItem.k = kind

Labels(items) == { items[i].label : i \in 1..Len(items) }

\* the names of the complete tags of a kind on the lines 0..line of a document
WrittenUpTo(lines, kind, line) ==
    UNION { { lines[i][j].n :
                j \in { h \in 1..Len(lines[i]) : lines[i][h].k = kind /\ lines[i][h].c } } :
            i \in 1..(IF line + 1 < Len(lines) THEN line + 1 ELSE Len(lines)) }

\* C8: block-name completion offers no name that a complete block tag at or above
\* the cursor line already carries; every name it offers is a block name of the
\* extends chain of the document and starts with the typed prefix.
C8_BlockCompletionOffers ==
    Completed("block") =>
        \A x \in Labels(result.out.value) :
            /\ x \notin WrittenUpTo(document.lines, "block", result.line)
            /\ \E e \in WrittenUpTo(document.lines, "extends", MaxLines) :
                  x \in ChainBlockNames(workspace_index, e)
            /\ StartsWith(x, CursorItem.n)

\* block completion offered names while a name of the chain with the typed prefix
\* was withheld because the document already has it at or above the cursor
C8_UsedNameWithheld ==
    /\ Completed("block")
    /\ result.out.value # <<>>
    /\ \E e \in WrittenUpTo(document.lines, "extends", MaxLines) :
          \E x \in ChainBlockNames(workspace_index, e) :
              /\ x \in WrittenUpTo(document.lines, "block", result.line)
              /\ StartsWith(x, CursorItem.n)

\* how near to the cursor the nearest complete block tag of a name is opened, among
\* the tags before the cursor: the greater, the nearer (0: none)
BlockOpenedAt(name) ==
    LET lines == document.lines
        src   == lines[result.line + 1]
        k     == IF result.character < Len(src) THEN result.character ELSE Len(src)
    IN  Max({0} \cup
            UNION { { 10 * i + j :
                        j \in { h \in 1..Len(lines[i]) :
                                  /\ lines[i][h].k = "block"
                                  /\ lines[i][h].c
                                  /\ lines[i][h].n = name
                                  /\ (i = result.line + 1 => h <= k) } } :
                    i \in 1..(result.line + 1) })

\* C9: in the sorted result of end-block completion, of any two candidates the one
\* whose opening block tag is nearer to the cursor comes first, on different lines
\* and on the same line.
C9_EndblockNearestFirst ==
    Completed("endblock") =>
        \A i, j \in 1..Len(result.out.value) :
            i < j => BlockOpenedAt(result.out.value[i].label)
                        > BlockOpenedAt(result.out.value[j].label)

\* end-block completion ranked two names that are opened on different lines
C9_TwoLinesRanked ==
    /\ Completed("endblock")
    /\ Len(result.out.value) = 2
    /\ BlockOpenedAt(result.out.value[1].label) \div 10
          > BlockOpenedAt(result.out.value[2].label) \div 10

(***************************************************************************)
(* Libraries and load statements                                           *)
(***************************************************************************)

NameIf == <<105, 102>>

NameElse == <<101, 108, 115, 101>>

NameEndif == <<101, 110, 100, 105, 102>>

NameG == <<103>>

NameH == <<104>>

\* the library "_" (builtin): the tag "if" with its inner and closing tags
LibraryBuiltin ==
    [tags    |-> (NameIf :> [docs |-> NameIf, source |-> <<>>,
                             inner_tags |-> <<NameElse>>, closing_tag |-> NameEndif]),
     filters |-> (NameC :> [docs |-> NameC, source |-> <<>>])]

\* a project library with the tag `tag` and the filter `filter`
LibraryOf(tag, filter) ==
    [tags    |-> (tag :> [docs |-> tag, source |-> <<>>]),
     filters |-> (filter :> [docs |-> filter, source |-> <<>>])]

LibrariesBuiltinW == (BUILTIN :> LibraryBuiltin) @@ (LibW :> LibraryOf(NameG, NameA))

LibrariesBuiltinWV ==
    (BUILTIN :> LibraryBuiltin) @@ (LibW :> LibraryOf(NameG, NameA))
    @@ (LibV :> LibraryOf(NameH, NameB))

\* a library map without the builtin library
LibrariesW == (LibW :> LibraryOf(NameG, NameA))

LoadLines ==
    { <<Tag("load", <<>>, <<LibW>>)>>,
      <<Tag("load", <<>>, <<LibU>>)>>,
      <<Tag("load", <<>>, <<LibW, LibV>>)>>,
      <<Tag("load", <<>>, <<LibV>>), Text>>,
      <<Typing("tagname", <<>>, <<>>)>> }

\* TemplateParser(...).loaded_libraries
ParserLoadedLibraries ==
    /\ result.op = "idle"
    /\ result' = [op |-> "loaded_libraries",
                  out |-> loaded_libraries(workspace_index, document.lines)]
    /\ UNCHANGED <<workspace_index, document, _MOST_RECENT_COMPLETIONS, is_initialized,
                   current_file_watcher_globs, threads, shown_messages,
                   cache_file>>

InitLoad ==
    /\ \E libraries \in {LibrariesBuiltinW, LibrariesBuiltinWV, LibrariesW} :
          workspace_index = IndexOf([libraries |-> libraries])
    /\ \E lines \in Lines(LoadLines) :
          document = [template_name |-> None, lines |-> lines]
    /\ result = Idle
    /\ _MOST_RECENT_COMPLETIONS = EmptyDict
    /\ ServerAtRest

NextLoad ==
    \/ ParserLoadedLibraries
    \/ \E line \in 0..(MaxLines - 1), character \in 0..MaxCharacter :
          ParserCompletions(line, character)
    \/ Deliver

SpecLoad == InitLoad /\ [][NextLoad]_vars

\* the library names written in the complete load tags of a document
LoadNamesWritten(lines) ==
    UNION { UNION { Range(lines[i][j].args) :
                      j \in { h \in 1..Len(lines[i]) :
                                lines[i][h].k = "load" /\ lines[i][h].c } } :
            i \in 1..Len(lines) }

\* C10: the loaded-library set contains the builtin library; every other member is
\* written in a load statement of the document and is a key of the index's library
\* map; when the load statements name only unknown libraries the set is {builtin}.
C10_LoadedLibraries ==
    result.op = "loaded_libraries" =>
        /\ BUILTIN \in result.out
        /\ \A lib \in result.out \ {BUILTIN} :
              /\ lib \in LoadNamesWritten(document.lines)
              /\ lib \in DOMAIN workspace_index.libraries
        /\ (LoadNamesWritten(document.lines) \cap DOMAIN workspace_index.libraries = {}
              => result.out = {BUILTIN})

\* a document that loads a known and an unknown library: the known one is in the set
C10_KnownLoadedUnknownIgnored ==
    /\ result.op = "loaded_libraries"
    /\ LibW \in result.out
    /\ LibU \in LoadNamesWritten(document.lines)
    /\ LibU \notin result.out

(***************************************************************************)
(* Scopes: for and with                                                    *)
(***************************************************************************)

ScopeLines ==
    { <<Tag("for", NameA, <<NameB>>)>>,
      <<Tag("endfor", <<>>, <<>>)>>,
      <<Tag("for", NameA, <<NameB>>), Tag("var", NameB, <<>>), Tag("endfor", <<>>, <<>>)>>,
      <<Tag("for", NameB, <<NameC>>)>>,
      <<Tag("with", NameA, <<NameAB>>)>>,
      <<Tag("endwith", <<>>, <<>>)>>,
      <<Typing("var", <<>>, <<>>)>> }

\* a global template context with the list a
ContextData == [global_template_context |-> (NameA :> [isdict |-> FALSE, type |-> Some(TypeL)])]

\* TemplateParser(...).get_context(line=line, character=character), called as the
\* handlers call it: for a line of the document
ParserGetContext(line, character) ==
    /\ result.op = "idle"
    /\ line < Len(document.lines)
    /\ result' = [op |-> "get_context", line |-> line, character |-> character,
                  out |-> get_context(workspace_index, document, line)]
    /\ UNCHANGED <<workspace_index, document, _MOST_RECENT_COMPLETIONS, is_initialized,
                   current_file_watcher_globs, threads, shown_messages,
                   cache_file>>

InitScope ==
    /\ workspace_index = IndexOf(ContextData)
    /\ \E lines \in Lines(ScopeLines) :
          document = [template_name |-> None, lines |-> lines]
    /\ result = Idle
    /\ _MOST_RECENT_COMPLETIONS = EmptyDict
    /\ ServerAtRest

NextScope ==
    \/ \E line \in 0..(MaxLines - 1), character \in 0..MaxCharacter :
          ParserGetContext(line, character)
    \/ \E line \in 0..(MaxLines - 1), character \in 0..MaxCharacter :
          ParserCompletions(line, character)
    \/ Deliver

SpecScope == InitScope /\ [][NextScope]_vars

\* the tags of the first `last` lines in document order, each with its line number
TagsInOrder(lines, last) ==
    Flatten([i \in 1..last |-> [h \in 1..Len(lines[i]) |-> [line |-> i, item |-> lines[i][h]]]])

RECURSIVE Nesting(_, _, _)
\* the template's own nesting, tag by tag: the frames still open, the frames closed
\* and the line that closed them, and whether every closing tag closed its own kind
Nesting(tags, i, st) ==
    IF i > Len(tags) THEN st
    ELSE LET tag == tags[i] IN
         IF tag.item.k \in {"for", "with"} /\ tag.item.c
         THEN Nesting(tags, i + 1, [st EXCEPT !.open = Append(@, tag)])
         ELSE IF tag.item.k \in {"endfor", "endwith"}
         THEN (IF \/ st.open = <<>>
                  \/ st.open[Len(st.open)].item.k
                        # (IF tag.item.k = "endfor" THEN "for" ELSE "with")
               THEN [st EXCEPT !.ok = FALSE]
               ELSE Nesting(tags, i + 1,
                        [open   |-> SubSeq(st.open, 1, Len(st.open) - 1),
                         closed |-> st.closed \cup
                                    {[opener |-> st.open[Len(st.open)], line |-> tag.line]},
                         ok     |-> st.ok]))
         ELSE Nesting(tags, i + 1, st)

\* the nesting of the document down to the end of the cursor line
NestingAtCursor ==
    Nesting(TagsInOrder(document.lines, result.line + 1), 1,
            [open |-> <<>>, closed |-> {}, ok |-> TRUE])

\* the names a frame binds
FrameNames(opener) ==
    Range(opener.item.args) \cup (IF opener.item.k = "for" THEN {NameForloop} ELSE {})

\* the loops whose body the cursor line is in: opened on a line above it and not
\* closed down to its end
LoopsAroundCursor(nest) ==
    { nest.open[i] : i \in { j \in 1..Len(nest.open) :
                               /\ nest.open[j].item.k = "for"
                               /\ nest.open[j].line < result.line + 1 } }

\* the loops whose endfor is on a line above the cursor line
LoopsClosedAbove(nest) ==
    { f.opener : f \in { g \in nest.closed :
                           g.opener.item.k = "for" /\ g.line < result.line + 1 } }

\* every other binding source of the cursor line: the frames still open, the frames
\* opened on the cursor line itself, the as clauses and type comments of the document,
\* and the context of the index
OtherSources(nest) ==
    UNION { FrameNames(nest.open[i]) : i \in 1..Len(nest.open) }
    \cup UNION { FrameNames(f.opener) :
                   f \in { g \in nest.closed : g.opener.line = result.line + 1 } }
    \cup UNION { UNION { Range(item.as) \cup
                         (IF item.k = "typecomment" THEN {item.n} ELSE {}) :
                         item \in Range(document.lines[i]) } :
                 i \in 1..Len(document.lines) }
    \cup DOMAIN workspace_index.global_template_context
\* C5: when get_context returns for a cursor line of a properly nested document, the
\* target names and forloop of every loop whose body the cursor line is in are in the
\* context, and the names of a loop whose endfor is above the cursor line are not in
\* it unless another binding source defines them; a loop opened and closed on one
\* line included.
C5_LoopBindingsFollowScope ==
    (result.op = "get_context" /\ ~result.out.raised /\ NestingAtCursor.ok) =>
        /\ \A loop \in LoopsAroundCursor(NestingAtCursor) :
              FrameNames(loop) \subseteq CtxNames(result.out.value)
        /\ \A loop \in LoopsClosedAbove(NestingAtCursor) :
              \A name \in FrameNames(loop) \ OtherSources(NestingAtCursor) :
                  name \notin CtxNames(result.out.value)

\* get_context returned for a cursor line inside two nested loops
C5_InsideNestedLoops ==
    /\ result.op = "get_context"
    /\ ~result.out.raised
    /\ NestingAtCursor.ok
    /\ Cardinality(LoopsAroundCursor(NestingAtCursor)) = 2

\* C6: for every cursor line, line 0 included, get_context gives what the scope scan
\* of the lines down to the cursor line gives: no line after the cursor line is
\* scanned, pushes a frame, or binds a name.
C6_ScanStopsAtCursor ==
    LET Same(out, bounded) ==
            /\ out.raised = bounded.raised
            /\ (~out.raised => out.value = bounded.value)
    IN  result.op = "get_context" =>
            Same(result.out,
                 ContextAfterScan(workspace_index, document,
                                  ScannedLinesToCursor(document.lines, result.line)))

\* get_context returned for a cursor line that a for line follows
C6_LoopBelowCursor ==
    /\ result.op = "get_context"
    /\ result.line + 1 < Len(document.lines)
    /\ ForStartMatch(document.lines[result.line + 2]) # 0

(***************************************************************************)
(* Requests to the server                                                  *)
(***************************************************************************)

NamePop == <<112, 111, 112>>

NameUp == <<117, 112>>

\* server.py completions(ls, params)
ServerCompletions(line, character) ==
    LET Answered(r) ==
            /\ result' = [op |-> "textDocument/completion", line |-> line,
                          character |-> character, raised |-> r.raised,
                          out |-> TryExcept(IF r.raised THEN Raise(r.value)
                                            ELSE Return(Some(CompletionList(r.value))))]
            /\ _MOST_RECENT_COMPLETIONS' = CacheWrite(_MOST_RECENT_COMPLETIONS, r.cached)
    IN  /\ result.op = "idle"
        /\ \E lib_order \in Orders(loaded_libraries(workspace_index, document.lines)) :
              Answered(completions(workspace_index, document, line, character, lib_order))
        /\ UNCHANGED <<workspace_index, document, is_initialized,
                       current_file_watcher_globs, threads, shown_messages,
                       cache_file>>

\* server.py hover(ls, params)
ServerHover(line, character) ==
    LET Answered(r) ==
            result' = [op |-> "textDocument/hover", line |-> line, character |-> character,
                       raised |-> r.raised, out |-> TryExcept(r)]
    IN  /\ result.op = "idle"
        /\ \E r \in hover(workspace_index, document, line, character) : Answered(r)
        /\ UNCHANGED <<workspace_index, document, _MOST_RECENT_COMPLETIONS, is_initialized,
                       current_file_watcher_globs, threads, shown_messages,
                       cache_file>>

\* server.py goto_definition(ls, params)
ServerGotoDefinition(line, character) ==
    LET Answered(r) ==
            result' = [op |-> "textDocument/definition", line |-> line,
                       character |-> character, raised |-> r.raised, out |-> TryExcept(r)]
    IN  /\ result.op = "idle"
        /\ \E lib_order \in Orders(loaded_libraries(workspace_index, document.lines)) :
              Answered(goto_definition(workspace_index, document, line, character, lib_order))
        /\ UNCHANGED <<workspace_index, document, _MOST_RECENT_COMPLETIONS, is_initialized,
                       current_file_watcher_globs, threads, shown_messages,
                       cache_file>>

\* server.py completion_item_resolve(ls, item)
ServerCompletionItemResolve(item) ==
    /\ result.op = "idle"
    /\ result' = [op |-> "completionItem/resolve", item |-> item,
                  out |-> completion_item_resolve(_MOST_RECENT_COMPLETIONS, item)]
    /\ UNCHANGED <<workspace_index, document, _MOST_RECENT_COMPLETIONS, is_initialized,
                   current_file_watcher_globs, threads, shown_messages,
                   cache_file>>

\* TemplateParser.resolve_completion(item)
ParserResolveCompletion(item) ==
    /\ result.op = "idle"
    /\ result' = [op |-> "resolve_completion", item |-> item,
                  out |-> resolve_completion(_MOST_RECENT_COMPLETIONS, item)]
    /\ UNCHANGED <<workspace_index, document, _MOST_RECENT_COMPLETIONS, is_initialized,
                   current_file_watcher_globs, threads, shown_messages,
                   cache_file>>

\* a list a and a string b in the global template context, and a route c whose source
\* is not of the form selector:path:line
ServerData ==
    [global_template_context |->
        (NameA :> [isdict |-> FALSE, type |-> Some(TypeL)])
        @@ (NameB :> [isdict |-> FALSE, type |-> Some(TypeS)]),
     urls |-> (NameC :> [docs |-> NameC, source |-> NameC]),
     libraries |-> LibrariesBuiltinW]

ServerLines ==
    { <<Typing("var", <<97, 46>>, <<>>)>>,
      <<Typing("var", <<98, 46>>, <<>>)>>,
      <<Tag("endfor", <<>>, <<>>)>>,
      <<Typing("url", NameC, <<>>)>> }

\* the items a client asks to resolve
ResolveItems ==
    { CompletionItem(label, None, "Function", documentation, None) :
        label \in {NamePop, NameUp, NameC}, documentation \in {None, Some(NameA)} }

InitServer ==
    /\ workspace_index = IndexOf(ServerData)
    /\ \E lines \in Lines(ServerLines) :
          document = [template_name |-> None, lines |-> lines]
    /\ result = Idle
    /\ _MOST_RECENT_COMPLETIONS = EmptyDict
    /\ ServerAtRest

NextServer ==
    \/ \E line \in 0..(MaxLines - 1), character \in 0..MaxCharacter :
          ServerCompletions(line, character)
    \/ \E line \in 0..(MaxLines - 1), character \in 0..MaxCharacter :
          ServerHover(line, character)
    \/ \E line \in 0..(MaxLines - 1), character \in 0..MaxCharacter :
          ServerGotoDefinition(line, character)
    \/ \E item \in ResolveItems : ServerCompletionItemResolve(item)
    \/ \E item \in ResolveItems : ParserResolveCompletion(item)
    \/ Deliver

SpecServer == InitServer /\ [][NextServer]_vars

\* the answers of the three handlers that wrap the parser call
Answer ==
    result.op \in {"textDocument/completion", "textDocument/hover", "textDocument/definition"}

\* C2: a completion, hover or definition request never answers with an exception, and
\* whenever the parser raised while handling it the answer is the absent result; the
\* request leaves the server where the next request is served (every handler is
\* enabled again once the answer is delivered).
C2_HandlerAbsorbsException ==
    Answer =>
        /\ ~result.out.raised
        /\ (result.raised => result.out.value = None)

\* the parser raised on an unbalanced endfor above the cursor and the handler answered
\* with the absent result
C2_RaisedAndAbsorbed ==
    /\ Answer
    /\ result.raised
    /\ result.line < Len(document.lines)
    /\ result.out = Return(None)

\* C3: after a completion request the most-recent-completions cache holds only labels
\* of the items this request produced.
C3_CacheHoldsLatestOnly ==
    result.op = "textDocument/completion" =>
        DOMAIN _MOST_RECENT_COMPLETIONS \subseteq
            (IF IsNone(result.out.value) THEN {}
             ELSE Labels(Val(result.out.value).items))

\* C4: resolving an item without documentation whose label is not in the cache
\* returns the item as it came and does not raise, in the server handler and in
\* TemplateParser.resolve_completion.
C4_ResolveMissIsHarmless ==
    (/\ result.op \in {"completionItem/resolve", "resolve_completion"}
     /\ NoDocumentation(result.item)
     /\ result.item.label \notin DOMAIN _MOST_RECENT_COMPLETIONS) =>
        /\ ~result.out.raised
        /\ result.out.value = result.item

(***************************************************************************)
(* Refreshes.  files_changed is declared @server.thread(): every call runs *)
(* get_django_data on a worker thread; a thread is at its collector call,  *)
(* at assignment k of WorkspaceIndex.update, at the watcher registration   *)
(* or done.                                                                *)
(***************************************************************************)

\* the files_changed calls of a behaviour
MaxRefreshes == 2

\* the data the server starts with: the builtin library and nothing else
FALLBACK_DJANGO_DATA == [libraries |-> (BUILTIN :> LibraryBuiltin)]

\* what one run of the collector prints: all six keys
CollectorRun(name, libraries) ==
    [file_watcher_globs      |-> <<name>>,
     static_files            |-> <<name>>,
     urls                    |-> (name :> [docs |-> name, source |-> <<>>]),
     libraries               |-> libraries,
     templates               |-> (name :> TemplateOptions(None, Some(<<name>>))),
     global_template_context |-> (name :> [isdict |-> FALSE, type |-> Some(TypeS)])]

CollectorRuns == { CollectorRun(NameA, LibrariesBuiltinW), CollectorRun(NameB, LibrariesBuiltinWV) }

\* what get_django_data gets from its collector: the data of a run, or nothing
\* (False, None) when the collector failed
Collected == { Some(run) : run \in CollectorRuns } \cup {None}

\* assignment k of WorkspaceIndex.update
UpdateCollection(idx, django_data, k) ==
    CASE k = 1 -> UpdateFileWatcherGlobs(idx, django_data)
      [] k = 2 -> UpdateStaticFiles(idx, django_data)
      [] k = 3 -> UpdateUrls(idx, django_data)
      [] k = 4 -> UpdateLibraries(idx, django_data)
      [] k = 5 -> UpdateTemplates(idx, django_data)
      [] k = 6 -> UpdateGlobalTemplateContext(idx, django_data)

\* the end of get_django_data: the watcher globs follow the index when the sets differ
WatchedGlobs(idx, current) ==
    IF Range(idx.file_watcher_globs) # Range(current) THEN idx.file_watcher_globs
    ELSE current

FailedToCollect ==
    "Failed to collect project-specific Django data. Falling back to default Django completions."

\* the advisory shown for every collection that fails
ShowEveryFailure(django_data, initialized, shown) ==
    IF IsNone(django_data) THEN Append(shown, FailedToCollect) ELSE shown

\* get_django_data without data: "if not self.is_initialized: self.show_message(...)"
ShowFailure(django_data, initialized, shown) ==
    IF IsNone(django_data) /\ ~initialized THEN Append(shown, FailedToCollect) ELSE shown

\* _get_django_data_from_cache returned the data: the option is on, the file holds
\* them and their hash is the current one
FromCache(cache, django_data) ==
    cache.cache /\ ~IsNone(django_data) /\ cache.data = django_data

\* the cache file written whether or not there are data
StoreWithoutData(cache, loaded_from_cache, django_data) ==
    IF cache.cache /\ ~loaded_from_cache
    THEN {[cache EXCEPT !.data = django_data], cache}
    ELSE {cache}

\* "if self.cache and not loaded_from_cache and django_data:
\* self._store_django_data_to_cache(django_data)": the file after the write, or the
\* file as it was when the write fails
StoreToCache(cache, loaded_from_cache, django_data) ==
    IF cache.cache /\ ~loaded_from_cache /\ ~IsNone(django_data)
    THEN {[cache EXCEPT !.data = django_data], cache}
    ELSE {cache}

\* server.py initialized(ls, params): get_django_data on the main thread, then
\* is_initialized = True
Initialized(django_data, loaded_from_cache) ==
    LET Refreshed(idx) ==
            /\ workspace_index' = idx
            /\ current_file_watcher_globs' = WatchedGlobs(idx, current_file_watcher_globs)
    IN  /\ ~is_initialized
        /\ result.op = "idle"
        /\ loaded_from_cache => FromCache(cache_file, django_data)
        /\ Refreshed(IF IsNone(django_data) THEN workspace_index
                     ELSE Update(workspace_index, Val(django_data)))
        /\ shown_messages' = ShowFailure(django_data, is_initialized, shown_messages)
        /\ cache_file' \in StoreToCache(cache_file, loaded_from_cache, django_data)
        /\ is_initialized' = TRUE
        /\ UNCHANGED <<document, result, _MOST_RECENT_COMPLETIONS, threads>>

\* server.py files_changed(ls, params): the call starts on a worker thread
FilesChanged ==
    /\ is_initialized
    /\ Len(threads) < MaxRefreshes
    /\ threads' = Append(threads, [pc |-> "collect", k |-> 0, django_data |-> None,
                                   loaded_from_cache |-> FALSE])
    /\ UNCHANGED <<workspace_index, document, result, _MOST_RECENT_COMPLETIONS,
                   is_initialized, current_file_watcher_globs, shown_messages,
                   cache_file>>

\* get_django_data on thread t: the collector returns
Collect(t, django_data, loaded_from_cache) ==
    /\ threads[t].pc = "collect"
    /\ loaded_from_cache => FromCache(cache_file, django_data)
    /\ threads' = [threads EXCEPT ![t] =
                      IF IsNone(django_data)
                      THEN [pc |-> "watch", k |-> 0, django_data |-> None,
                            loaded_from_cache |-> FALSE]
                      ELSE [pc |-> "update", k |-> 1, django_data |-> django_data,
                            loaded_from_cache |-> loaded_from_cache]]
    /\ shown_messages' = ShowFailure(django_data, is_initialized, shown_messages)
    /\ UNCHANGED <<workspace_index, document, result, _MOST_RECENT_COMPLETIONS,
                   is_initialized, current_file_watcher_globs, cache_file>>

\* WorkspaceIndex.update on thread t: its next assignment
UpdateStep(t, k) ==
    /\ threads[t].pc = "update"
    /\ threads[t].k = k
    /\ workspace_index' = UpdateCollection(workspace_index, Val(threads[t].django_data), k)
    /\ threads' = [threads EXCEPT ![t] =
                      IF k = 6 THEN [@ EXCEPT !.pc = "watch", !.k = 0]
                      ELSE [@ EXCEPT !.k = k + 1]]
    /\ UNCHANGED <<document, result, _MOST_RECENT_COMPLETIONS, is_initialized,
                   current_file_watcher_globs, shown_messages,
                   cache_file>>

\* get_django_data on thread t: the file watcher registration, and the call ends
Watch(t) ==
    /\ threads[t].pc = "watch"
    /\ current_file_watcher_globs' = WatchedGlobs(workspace_index, current_file_watcher_globs)
    /\ threads' = [threads EXCEPT ![t].pc = "done"]
    /\ cache_file' \in StoreToCache(cache_file, threads[t].loaded_from_cache,
                                     threads[t].django_data)
    /\ UNCHANGED <<workspace_index, document, result, _MOST_RECENT_COMPLETIONS,
                   is_initialized, shown_messages>>

InitRefresh ==
    /\ workspace_index = IndexOf(FALLBACK_DJANGO_DATA)
    /\ document = [template_name |-> None, lines |-> <<<<Typing("url", <<>>, <<>>)>>>>]
    /\ result = Idle
    /\ _MOST_RECENT_COMPLETIONS = EmptyDict
    /\ ServerAtRest

NextRefresh ==
    \/ \E django_data \in Collected, loaded_from_cache \in BOOLEAN :
          Initialized(django_data, loaded_from_cache)
    \/ FilesChanged
    \/ \E t \in 1..Len(threads), django_data \in Collected, loaded_from_cache \in BOOLEAN :
          Collect(t, django_data, loaded_from_cache)
    \/ \E t \in 1..Len(threads), k \in 1..6 : UpdateStep(t, k)
    \/ \E t \in 1..Len(threads) : Watch(t)
    \/ ServerCompletions(0, 1)
    \/ ServerHover(0, 1)
    \/ ServerGotoDefinition(0, 1)
    \/ Deliver

SpecRefresh == InitRefresh /\ [][NextRefresh]_vars

\* the six collections of an index
Snapshot(idx) == [i \in 1..6 |-> idx[Collections[i]]]

\* C1: the index a completion, hover or definition request has read, and the index
\* left when every refresh has finished, equals in all six collections the fallback
\* snapshot or the snapshot of one single collector run.
C1_RequestsSeeOneSnapshot ==
    (\/ Answer
     \/ \A t \in 1..Len(threads) : threads[t].pc = "done") =>
        Snapshot(workspace_index) \in
            { Snapshot(IndexOf(FALLBACK_DJANGO_DATA)) }
            \cup { Snapshot(IndexOf(run)) : run \in CollectorRuns }

(***************************************************************************)
(* Tags and filters of the loaded libraries                                *)
(***************************************************************************)

\* TemplateParser(...).hover(line, character)
ParserHover(line, character) ==
    /\ result.op = "idle"
    /\ \E r \in hover(workspace_index, document, line, character) :
          result' = [op |-> "hover", line |-> line, character |-> character,
                     handler |-> HandlerOf(document, line, character, "hover"),
                     out |-> r]
    /\ UNCHANGED <<workspace_index, document, _MOST_RECENT_COMPLETIONS, is_initialized,
                   current_file_watcher_globs, threads, shown_messages,
                   cache_file>>

\* the word characters that follow the cursor
Rest(name) == Tag("rest", name, <<>>)

\* "{% load w %}", "{% load w v %}", "{% load v %}text", "{% if %}", "{% " before "g",
\* "{% h", "{{ x|a", "{{ x|" before "b"
TagLines ==
    { <<Tag("load", <<>>, <<LibW>>)>>,
      <<Tag("load", <<>>, <<LibW, LibV>>)>>,
      <<Tag("load", <<>>, <<LibV>>), Text>>,
      <<Tag("if", <<>>, <<>>)>>,
      <<Typing("tagname", <<>>, <<>>), Rest(NameG)>>,
      <<Typing("tagname", NameH, <<>>)>>,
      <<Typing("filter", NameA, <<>>)>>,
      <<Typing("filter", <<>>, <<>>), Rest(NameB)>> }

InitTags ==
    /\ \E libraries \in {LibrariesBuiltinW, LibrariesBuiltinWV} :
          workspace_index = IndexOf([libraries |-> libraries])
    /\ \E lines \in Lines(TagLines) :
          document = [template_name |-> None, lines |-> lines]
    /\ result = Idle
    /\ _MOST_RECENT_COMPLETIONS = EmptyDict
    /\ ServerAtRest

NextTags ==
    \/ \E line \in 0..(MaxLines - 1), character \in 0..MaxCharacter :
          ParserCompletions(line, character)
    \/ \E line \in 0..(MaxLines - 1), character \in 0..MaxCharacter :
          ParserHover(line, character)
    \/ Deliver

SpecTags == InitTags /\ [][NextTags]_vars

\* the libraries of the index among a set of library names
LibrariesNamed(names) == names \cap DOMAIN workspace_index.libraries

\* the tag names, and the filter names, that the libraries of a set define
TagsDefinedBy(libs) ==
    UNION { DOMAIN workspace_index.libraries[l].tags : l \in LibrariesNamed(libs) }

FiltersDefinedBy(libs) ==
    UNION { DOMAIN workspace_index.libraries[l].filters : l \in LibrariesNamed(libs) }

\* the inner and closing tag names that belong to the tags of the libraries of a set
InnerNamesOf(libs) ==
    UNION { UNION { Range(workspace_index.libraries[l].tags[t].inner_tags)
                    \cup (IF IsNone(workspace_index.libraries[l].tags[t].closing_tag)
                          THEN {}
                          ELSE {Val(workspace_index.libraries[l].tags[t].closing_tag)}) :
                    t \in DOMAIN workspace_index.libraries[l].tags } :
            l \in LibrariesNamed(libs) }

\* the loaded-library set of the document of the call
LoadedSet == loaded_libraries(workspace_index, document.lines)

\* hover() returned for a cursor in an open construct of the given kind
Hovered(kind) ==
    /\ result.op = "hover"
    /\ ~result.out.raised
    /\ ~CursorItem.c
    /\ CursorItem.k = kind

\* the name under the cursor: what is typed before it and the word after it
CursorName ==
    FullName(document.lines[result.line + 1], result.character, CursorItem.n)

LoadNamesWrittenBeforeCursor ==
    LET lines == document.lines
        src   == lines[result.line + 1]
        k     == IF result.character < Len(src) THEN result.character ELSE Len(src)
    IN  UNION { UNION { Range(lines[i][j].args) :
                          j \in { h \in 1..Len(lines[i]) :
                                    /\ lines[i][h].k = "load"
                                    /\ lines[i][h].c
                                    /\ (i = result.line + 1 => h <= k) } } :
                i \in 1..(result.line + 1) }

\* C12: tag completion offers no tag that only a library L defines when every load
\* statement of the document for L lies after the cursor position.
C12_LoadTakesEffectBelow ==
    Completed("tagname") =>
        \A L \in LibrariesNamed(LoadNamesWritten(document.lines)
                                \ ({BUILTIN} \cup LoadNamesWrittenBeforeCursor)) :
            \A x \in DOMAIN workspace_index.libraries[L].tags :
                (x \notin TagsDefinedBy(DOMAIN workspace_index.libraries \ {L})
                            \cup InnerNamesOf(DOMAIN workspace_index.libraries \ {L}))
                    => x \notin Labels(result.out.value)

\* tag completion below the load statement of w offered the tag of w
C12_LoadAboveOffers ==
    /\ Completed("tagname")
    /\ LibW \in LoadNamesWrittenBeforeCursor
    /\ NameG \in Labels(result.out.value)

(***************************************************************************)
(* Inline type comments and member completion                              *)
(***************************************************************************)

\* "{# type a: S #}", "{# type a: m.C #}", "{# type b: L #}", "{# type m: m.C #}",
\* "{{ a.", "{{ b.", "{{ m.", "{% for a in b %}"
TypeLines ==
    { <<Tag("typecomment", NameA, <<TypeS>>)>>,
      <<Tag("typecomment", NameA, <<TypeMC>>)>>,
      <<Tag("typecomment", NameB, <<TypeL>>)>>,
      <<Tag("typecomment", ModuleM, <<TypeMC>>)>>,
      <<Typing("var", <<97, 46>>, <<>>)>>,
      <<Typing("var", <<98, 46>>, <<>>)>>,
      <<Typing("var", <<109, 46>>, <<>>)>>,
      <<Tag("for", NameB, <<NameA>>)>> }

InitTypes ==
    /\ workspace_index = IndexOf(ContextData)
    /\ \E lines \in Lines(TypeLines) :
          document = [template_name |-> None, lines |-> lines]
    /\ result = Idle
    /\ _MOST_RECENT_COMPLETIONS = EmptyDict
    /\ ServerAtRest

NextTypes ==
    \/ \E line \in 0..(MaxLines - 1), character \in 0..MaxCharacter :
          ParserCompletions(line, character)
    \/ Deliver

SpecTypes == InitTypes /\ [][NextTypes]_vars

\* the type the document declares for a name in a type comment: the one of the last
\* such comment, none when there is no such comment
DeclaredType(x) ==
    LET all == TagsInOrder(document.lines, Len(document.lines))
        at  == { i \in 1..Len(all) :
                   /\ all[i].item.k = "typecomment"
                   /\ all[i].item.c
                   /\ all[i].item.n = x }
    IN  IF at = {} THEN None ELSE Some(all[Max(at)].item.args[1])

\* whether a loop, a with or an as clause of the document binds the name
BoundByTag(x) ==
    \E i \in 1..Len(document.lines) : \E item \in Range(document.lines[i]) :
        \/ item.k \in {"for", "with"} /\ x \in Range(item.args)
        \/ x \in Range(item.as)

\* completions() returned for "{{ x." with x declared by a type comment only
CompletedMembersOf(x) ==
    /\ Completed("var")
    /\ CursorItem.n = x \o <<46>>
    /\ ~IsNone(DeclaredType(x))
    /\ ~BoundByTag(x)

\* the variables of the documents
TypedNames == {NameA, NameB, ModuleM}

ParserGotoDefinition(line, character) ==
    LET Returned(r) ==
            result' = [op |-> "goto_definition", line |-> line, character |-> character,
                       handler |-> HandlerOf(document, line, character, "goto_definition"),
                       out |-> r]
    IN  /\ result.op = "idle"
        /\ \E lib_order \in Orders(loaded_libraries(workspace_index, document.lines)) :
              Returned(goto_definition(workspace_index, document, line, character, lib_order))
        /\ UNCHANGED <<workspace_index, document, _MOST_RECENT_COMPLETIONS, is_initialized,
                       current_file_watcher_globs, threads, shown_messages,
                       cache_file>>

SelectorEnv == <<101, 110, 118>>

SelectorX == <<120>>

\* "<selector>:a:<line>"
SourceRef(selector, line) == selector \o <<58, 97, 58>> \o line

\* "<selector>:a", the source ref of a template, and a source ref without its line
SourcePath(selector) == selector \o <<58, 97>>

\* routes, tags, filters and templates whose source refs name the root src, the root
\* env, no root of the index ("x") or lack a part
DefinitionData ==
    [urls |-> (NameA :> [docs |-> <<>>, source |-> SourceRef(SelectorSrc, <<49>>)])
              @@ (NameB :> [docs |-> <<>>, source |-> SourceRef(SelectorEnv, <<50>>)])
              @@ (NameC :> [docs |-> <<>>, source |-> SourceRef(SelectorX, <<49>>)])
              @@ (NameAB :> [docs |-> <<>>, source |-> SourcePath(SelectorSrc)]),
     libraries |->
        (BUILTIN :>
            [tags    |-> (NameG :> [docs |-> <<>>, source |-> SourceRef(SelectorSrc, <<49>>)])
                         @@ (NameH :> [docs |-> <<>>, source |-> SourceRef(SelectorX, <<49>>)])
                         @@ (NameIf :> [docs |-> <<>>]),
             filters |-> (NameA :> [docs |-> <<>>, source |-> SourceRef(SelectorEnv, <<50>>)])
                         @@ (NameB :> [docs |-> <<>>, source |-> SourcePath(SelectorSrc)])]),
     templates |-> (TplP :> [path |-> SourcePath(SelectorSrc)])
                   @@ (TplQ :> [path |-> SourcePath(SelectorX)])
                   @@ (TplR :> [path |-> NameA])]

\* "{% url 'a", "{% url 'b", "{% url 'c", "{% url 'ab", "{% url '" before "a", "{% g",
\* "{% h", "{% if", "{{ x|a", "{{ x|b", "{% extends 'p'", "{% include 'q'",
\* "{% extends 'r'"
DefinitionLines ==
    { <<Typing("url", NameA, <<>>)>>,
      <<Typing("url", NameB, <<>>)>>,
      <<Typing("url", NameC, <<>>)>>,
      <<Typing("url", NameAB, <<>>)>>,
      <<Typing("url", <<>>, <<>>), Rest(NameA)>>,
      <<Typing("tagname", NameG, <<>>)>>,
      <<Typing("tagname", NameH, <<>>)>>,
      <<Typing("tagname", NameIf, <<>>)>>,
      <<Typing("filter", NameA, <<>>)>>,
      <<Typing("filter", NameB, <<>>)>>,
      <<Typing("extends", TplP, <<>>), Rest(<<>>)>>,
      <<Typing("include", TplQ, <<>>), Rest(<<>>)>>,
      <<Typing("extends", TplR, <<>>), Rest(<<>>)>> }

\* the definition requests look at one line: documents of one or two lines
InitDefinition ==
    /\ workspace_index = IndexOf(DefinitionData)
    /\ \E lines \in { d \in Lines(DefinitionLines) : Len(d) \in 1..2 } :
          document = [template_name |-> None, lines |-> lines]
    /\ result = Idle
    /\ _MOST_RECENT_COMPLETIONS = EmptyDict
    /\ ServerAtRest

NextDefinition ==
    \/ \E line \in 0..(MaxLines - 1), character \in 0..MaxCharacter :
          ParserGotoDefinition(line, character)
    \/ Deliver

SpecDefinition == InitDefinition /\ [][NextDefinition]_vars

\* goto_definition() was called for a cursor in an open construct of the given kinds
DefinitionAsked(kinds) ==
    /\ result.op = "goto_definition"
    /\ result.line < Len(document.lines)
    /\ ~CursorItem.c
    /\ CursorItem.k \in kinds

\* the parts of the source ref of the entry under the cursor (a template's ref has
\* its line, 0, added); no parts when the index has no such entry
CursorRefParts ==
    LET idx  == workspace_index
        name == CursorName
        libs(field) == { l \in LibrariesNamed(LoadedSet) : name \in DOMAIN idx.libraries[l][field] }
        OfLibrary(field) ==
            IF libs(field) = {} THEN <<>>
            ELSE Split(idx.libraries[CHOOSE l \in libs(field) : TRUE][field][name].source, 58)
    IN  CASE CursorItem.k = "url" ->
                IF name \in DOMAIN idx.urls THEN Split(idx.urls[name].source, 58) ELSE <<>>
          [] CursorItem.k = "tagname" -> OfLibrary("tags")
          [] CursorItem.k = "filter" -> OfLibrary("filters")
          [] CursorItem.k \in {"extends", "include"} ->
                IF name \in DOMAIN idx.templates
                THEN Split(idx.templates[name].path, 58) \o <<<<48>>>> ELSE <<>>
          [] OTHER -> <<>>

\* the root path a selector names, none for a selector that names no root
RootPath(selector) ==
    CASE selector = SelectorSrc -> Some(workspace_index.src_path)
      [] selector = SelectorEnv -> Some(workspace_index.env_path)
      [] OTHER -> None

\* C14: definition lookup for a route, tag, filter or template returns the location
\* <root path>/<path> at the line of the source ref when the ref has its three parts
\* and its selector names the root src or env; when the selector names no root or the
\* ref lacks a part it returns the absent result and does not raise.
C14_DefinitionOfSourceRef ==
    DefinitionAsked({"url", "tagname", "filter", "extends", "include"}) =>
        LET parts == CursorRefParts IN
        /\ ~result.out.raised
        /\ result.out.value =
              IF Len(parts) = 3 /\ ~IsNone(RootPath(parts[1]))
              THEN Some(Location(Val(RootPath(parts[1])), parts[2], parts[3]))
              ELSE None

\* the definition of the route b is the location of its ref under the root env
C14_KnownRootLocated ==
    /\ DefinitionAsked({"url"})
    /\ CursorName = NameB
    /\ ~result.out.raised
    /\ result.out.value = Some(Location("/project/env", NameA, <<50>>))

(***************************************************************************)
(* Lookups of entries that the index does not have                         *)
(***************************************************************************)

\* an index as the one of the tests, in which q has no block list, with a library map
\* that has no builtin library; and an index that has every entry looked up
MissingData ==
    { [templates |-> TemplatesNoBlocks, libraries |-> LibrariesW],
      [templates |-> TemplatesNoBlocks, libraries |-> LibrariesBuiltinW],
      [templates |-> TemplatesChain, libraries |-> LibrariesW],
      [templates |-> TemplatesChain, libraries |-> LibrariesBuiltinW] }

\* "{% extends 'q' %}", "{% extends 'x' %}", "{% block ", "{% load w %}", "{% g",
\* "{{ x|a", "{% url 'c"
MissingLines ==
    { <<Tag("extends", TplQ, <<>>)>>,
      <<Tag("extends", TplX, <<>>)>>,
      <<Typing("block", <<>>, <<>>)>>,
      <<Tag("load", <<>>, <<LibW>>)>>,
      <<Typing("tagname", NameG, <<>>)>>,
      <<Typing("filter", NameA, <<>>)>>,
      <<Typing("url", NameC, <<>>)>> }

InitMissing ==
    /\ \E django_data \in MissingData : workspace_index = IndexOf(django_data)
    /\ \E lines \in Lines(MissingLines) :
          document = [template_name |-> None, lines |-> lines]
    /\ result = Idle
    /\ _MOST_RECENT_COMPLETIONS = EmptyDict
    /\ ServerAtRest

NextMissing ==
    \/ \E line \in 0..(MaxLines - 1), character \in 0..MaxCharacter :
          ParserCompletions(line, character)
    \/ \E line \in 0..(MaxLines - 1), character \in 0..MaxCharacter :
          ParserHover(line, character)
    \/ \E line \in 0..(MaxLines - 1), character \in 0..MaxCharacter :
          ParserGotoDefinition(line, character)
    \/ Deliver

SpecMissing == InitMissing /\ [][NextMissing]_vars

\* a call of completions, hover or goto_definition for a position on a line of the
\* document
CalledOnLine(ops) ==
    /\ result.op \in ops
    /\ result.line < Len(document.lines)

\* whether the index has no entry for the name under the cursor: no such route, or no
\* such tag or filter in a library of the loaded set
NoEntryUnderCursor ==
    /\ ~CursorItem.c
    /\ \/ CursorItem.k = "url" /\ CursorName \notin DOMAIN workspace_index.urls
       \/ CursorItem.k = "tagname" /\ CursorName \notin TagsDefinedBy(LoadedSet)
       \/ CursorItem.k = "filter" /\ CursorName \notin FiltersDefinedBy(LoadedSet)

\* C15: completions, hover and goto_definition of TemplateParser do not raise when an
\* entry they look up is missing from the index (an extended template that is not in
\* the template map, a template without a block list, a loaded library, the builtin
\* one included, that is not in the library map, an unknown route, tag or filter);
\* block completion under an unknown template is empty, and hover and definition of
\* a name without an entry are absent.
C15_MissingEntryIsEmpty ==
    /\ CalledOnLine({"completions", "hover", "goto_definition"}) => ~result.out.raised
    /\ (/\ CalledOnLine({"completions"})
        /\ Completed("block")
        /\ WrittenUpTo(document.lines, "extends", MaxLines)
              \cap DOMAIN workspace_index.templates = {})
          => result.out.value = <<>>
    /\ (CalledOnLine({"hover", "goto_definition"}) /\ NoEntryUnderCursor)
          => result.out.value = None

\* hover and definition of a route that the index does not have returned the absent
\* result
C15_UnknownRouteAbsent ==
    /\ CalledOnLine({"hover", "goto_definition"})
    /\ CursorItem.k = "url"
    /\ NoEntryUnderCursor
    /\ ~result.out.raised
    /\ result.out.value = None

(***************************************************************************)
(* The order of the matchers                                               *)
(***************************************************************************)

\* a list a in the template context, the route c, the libraries _ and w
DispatchData ==
    [global_template_context |-> (NameA :> [isdict |-> FALSE, type |-> Some(TypeL)]),
     urls |-> (NameC :> [docs |-> NameC, source |-> SourceRef(SelectorSrc, <<49>>)]),
     libraries |-> LibrariesBuiltinW]

\* "{% url 'a" before "c", "{% url 'a" before text, "{% load a", "{{ a{% load w",
\* "{{ a }}{% g", "text{% g", "{{ a|c", "{{ a" before text, "text"
DispatchLines ==
    { <<Typing("url", NameA, <<>>), Rest(NameC)>>,
      <<Typing("url", NameA, <<>>), Text>>,
      <<Typing("load", NameA, <<>>)>>,
      <<Typing("var", NameA, <<>>), Typing("load", LibW, <<>>)>>,
      <<Tag("var", NameA, <<>>), Typing("tagname", NameG, <<>>)>>,
      <<Text, Typing("tagname", NameG, <<>>)>>,
      <<Typing("filter", NameC, <<>>)>>,
      <<Typing("var", NameA, <<>>), Text>>,
      <<Text>> }

InitDispatch ==
    /\ workspace_index = IndexOf(DispatchData)
    /\ \E lines \in { d \in Lines(DispatchLines) : Len(d) \in 1..2 } :
          document = [template_name |-> None, lines |-> lines]
    /\ result = Idle
    /\ _MOST_RECENT_COMPLETIONS = EmptyDict
    /\ ServerAtRest

NextDispatch ==
    \/ \E line \in 0..(MaxLines - 1), character \in 0..MaxCharacter :
          ParserCompletions(line, character)
    \/ \E line \in 0..(MaxLines - 1), character \in 0..MaxCharacter :
          ParserHover(line, character)
    \/ \E line \in 0..(MaxLines - 1), character \in 0..MaxCharacter :
          ParserGotoDefinition(line, character)
    \/ Deliver

SpecDispatch == InitDispatch /\ [][NextDispatch]_vars

\* the cursor line of the last call, and the part of it before the cursor
CursorLine == document.lines[result.line + 1]

BeforeCursor == LineFragment(CursorLine, result.character)

\* which matchers of the called operation match the part before the cursor
MatchersThatMatch ==
    LET matches == CASE result.op = "completions" -> CompletionMatchers(BeforeCursor)
                     [] result.op = "hover" -> HoverMatchers(BeforeCursor)
                     [] result.op = "goto_definition" -> DefinitionMatchers(BeforeCursor)
    IN  { i \in 1..Len(matches) : matches[i] }

\* the texts that may follow the cursor
TextsAfterCursor ==
    { <<>>, <<Text>>, <<Rest(NameC)>>, <<Typing("load", LibW, <<>>)>>,
      <<Text, Typing("url", NameC, <<>>)>> }

\* the document with the text after the cursor replaced
WithTextAfterCursor(after) ==
    [document EXCEPT !.lines[result.line + 1] =
        SubSeq(@, 1, result.character) \o after]

\* the handler that the same call runs when `after` follows the cursor
HandlerWithTextAfterCursor(after) ==
    HandlerOf(WithTextAfterCursor(after), result.line, result.character, result.op)

\* the typed name that the handlers of the load and url matchers receive
TypedName == BeforeCursor[Len(BeforeCursor)].n

\* C16: completions, hover and goto_definition run the handler of the first matcher,
\* in the order of the matcher list, that matches the cursor line cut at the cursor
\* column: the result is that handler's alone, also when it is empty and a later
\* matcher matches too; the text after the cursor does not change the choice; when no
\* matcher matches, completion is empty and hover and definition are absent.
C16_FirstMatcherDecides ==
    CalledOnLine({"completions", "hover", "goto_definition"}) =>
       /\ MatchersThatMatch = {} =>
             /\ result.handler = 0
             /\ result.out = Return(IF result.op = "completions" THEN <<>> ELSE None)
       /\ MatchersThatMatch # {} =>
             /\ result.handler \in MatchersThatMatch
             /\ \A later \in MatchersThatMatch : result.handler <= later
       /\ (result.op = "completions" /\ result.handler = 1) =>
             result.out = Return(Sorted(get_load_completions(workspace_index, TypedName)))
       /\ (result.op = "completions" /\ result.handler = 4) =>
             result.out = Return(Sorted(get_url_completions(workspace_index, TypedName)))
       /\ (result.op = "hover" /\ result.handler = 1) =>
             result.out = Return(get_url_hover(workspace_index, CursorLine,
                                               result.character, TypedName))
       /\ (result.op = "goto_definition" /\ result.handler = 2) =>
             result.out = get_url_definition(workspace_index, CursorLine,
                                             result.character, TypedName)
       /\ result.character <= Len(CursorLine) =>
             \A after \in TextsAfterCursor :
                HandlerWithTextAfterCursor(after) = result.handler

\* completion of "{% url 'a" with text after the cursor: the route matcher and the
\* expression matcher both match, no route starts with "a" while the context has the
\* variable a, and the result is empty
C16_LaterMatcherNotConsulted ==
    /\ CalledOnLine({"completions"})
    /\ result.character < Len(CursorLine)
    /\ MatchersThatMatch = {4, 10}
    /\ result.handler = 4
    /\ TypedName = NameA
    /\ NameA \in DOMAIN workspace_index.global_template_context
    /\ ~result.out.raised
    /\ result.out.value = <<>>

(***************************************************************************)
(* Completion of library names in a load statement                         *)
(***************************************************************************)

\* "{% load ", "{% load w", "{% load u", "{% load w ", "{% load w w", "{% load w v",
\* "{% load w v "
LoadTypingLines ==
    { <<Typing("load", <<>>, <<>>)>>,
      <<Typing("load", LibW, <<>>)>>,
      <<Typing("load", LibU, <<>>)>>,
      <<Typing("load", <<>>, <<LibW>>)>>,
      <<Typing("load", LibW, <<LibW>>)>>,
      <<Typing("load", LibV, <<LibW>>)>>,
      <<Typing("load", <<>>, <<LibW, LibV>>)>> }

InitLoadTyping ==
    /\ \E libraries \in {LibrariesBuiltinW, LibrariesBuiltinWV} :
          workspace_index = IndexOf([libraries |-> libraries])
    /\ \E lines \in Lines(LoadTypingLines) :
          document = [template_name |-> None, lines |-> lines]
    /\ result = Idle
    /\ _MOST_RECENT_COMPLETIONS = EmptyDict
    /\ ServerAtRest

NextLoadTyping ==
    \/ \E line \in 0..(MaxLines - 1), character \in 0..MaxCharacter :
          ParserCompletions(line, character)
    \/ Deliver

SpecLoadTyping == InitLoadTyping /\ [][NextLoadTyping]_vars

\* the library names of the index, the builtin one left out, that start with the word
\* being typed
LibrariesWithTypedPrefix ==
    { l \in DOMAIN workspace_index.libraries : l # BUILTIN /\ StartsWith(l, CursorItem.n) }

\* C17: load completion offers exactly the library names of the index that start with
\* the last typed word, without the builtin library and without the names that the
\* same load statement already lists before that word.
C17_LoadOffersUnlistedLibraries ==
    Completed("load") =>
       Labels(result.out.value) = LibrariesWithTypedPrefix \ Range(CursorItem.args)

\* load completion after a listed library: "{% load w v" offered v alone
C17_OtherLibraryOffered ==
    /\ Completed("load")
    /\ CursorItem.args = <<LibW>>
    /\ CursorItem.n = LibV
    /\ Labels(result.out.value) = {LibV}

(***************************************************************************)
(* Translation of a template expression for the engine                    *)
(***************************************************************************)

\* self._django_variable_to_python(variable, self.get_context(line=line, ...),
\* execute_last_function=...) on an engine whose probes of `failing` raise
ParserDjangoVariableToPython(variable, line, execute_last_function, failing) ==
    LET context == get_context(workspace_index, document, line)
        Called(r) ==
            [op |-> "_django_variable_to_python", variable |-> variable, line |-> line,
             execute_last_function |-> execute_last_function, failing |-> failing,
             probes |-> r.probes,
             out |-> [raised |-> r.raised, value |-> r.value]]
    IN
    /\ result.op = "idle"
    /\ line < Len(document.lines)
    /\ ~context.raised
    /\ result' = Called(VariableToPythonOutcome(variable, context.value, document.lines,
                                                execute_last_function, failing))
    /\ UNCHANGED <<workspace_index, document, _MOST_RECENT_COMPLETIONS, is_initialized,
                   current_file_watcher_globs, threads, shown_messages,
                   cache_file>>

\* "{% for b in a %}", "{# type b: S #}", "text"
TranslateLines ==
    { <<Tag("for", NameA, <<NameB>>)>>,
      <<Tag("typecomment", NameB, <<TypeS>>)>>,
      <<Text>> }

\* "", "a", "a.", "a.0", "a.pop", "a.0.up", "a.x", "a.0.x", "b.up", "c", "a.pop.up",
\* "a.pop.", "c.x.up"
TranslateVariables ==
    { <<>>, NameA, <<97, 46>>, <<97, 46, 48>>, <<97, 46, 112, 111, 112>>,
      <<97, 46, 48, 46, 117, 112>>, <<97, 46, 120>>, <<97, 46, 48, 46, 120>>,
      <<98, 46, 117, 112>>, NameC, <<97, 46, 112, 111, 112, 46, 117, 112>>,
      <<97, 46, 112, 111, 112, 46>>, <<99, 46, 120, 46, 117, 112>> }

\* the probes that the engine may fail on: "a", "a[0].up"
FailingProbes == { <<Seg(NameA)>>, <<Seg(NameA), Index(<<48>>), Seg(<<117, 112>>)>> }

InitTranslate ==
    /\ workspace_index = IndexOf(ContextData)
    /\ \E lines \in Lines(TranslateLines) :
          document = [template_name |-> None, lines |-> lines]
    /\ result = Idle
    /\ _MOST_RECENT_COMPLETIONS = EmptyDict
    /\ ServerAtRest

NextTranslate ==
    \/ \E variable \in TranslateVariables, line \in 0..(MaxLines - 1),
          execute_last_function \in BOOLEAN, failing \in SUBSET FailingProbes :
          ParserDjangoVariableToPython(variable, line, execute_last_function, failing)
    \/ Deliver

SpecTranslate == InitTranslate /\ [][NextTranslate]_vars

\* the segments that an expression text names, in order
SegmentsOf(code) ==
    LET named == SelectSeq(code, LAMBDA st : st.op \in {"name", "index"}) IN
    [i \in 1..Len(named) |-> named[i].x]

\* the probe of the first segment of the translated variable, and what it yields on
\* an engine that answers
FirstProbe == <<Seg(Head(Split(result.variable, 46)))>>

FirstProbeAnswer ==
    EngineInfer(ScriptLines(get_context(workspace_index, document, result.line).value,
                            document.lines),
                FirstProbe)

\* C18: _django_variable_to_python does not raise; when the probe of a segment yields
\* nothing, or the probe itself fails, it returns the expression as it was given; what
\* it returns is never a translation of only a part of the expression.
C18_TranslationNeverRaises ==
    result.op = "_django_variable_to_python" =>
       /\ ~result.out.raised
       /\ (result.variable # <<>> /\ (FirstProbe \in result.failing \/ FirstProbeAnswer = <<>>))
             => result.out.value = RawExpr(result.variable)
       /\ \/ result.out.value = RawExpr(result.variable)
          \/ SegmentsOf(result.out.value) = SegmentsOf(RawExpr(result.variable))

\* "a.x" on an engine that answers: a is translated, the probe of a.x yields nothing,
\* and the expression came back as it was given
C18_EmptyProbeUnchanged ==
    /\ result.op = "_django_variable_to_python"
    /\ result.variable = <<97, 46, 120>>
    /\ result.failing = {}
    /\ FirstProbeAnswer # <<>>
    /\ result.out = Return(RawExpr(result.variable))

(***************************************************************************)
(* Definitions of context variables                                        *)
(***************************************************************************)

NameParentloop == NameForloop \o <<46, 112, 97, 114, 101, 110, 116, 108, 111, 111, 112>>

NameCounter == NameForloop \o <<46, 99, 111, 117, 110, 116, 101, 114>>

\* "{% for b in a %}", "{% endfor %}", "{# type c: X #}", "{{ forloop",
\* "{{ forloop.parentloop", "{{ forloop.counter", "{{ a", "{{ a.pop", "{{ b", "{{ c"
ContextDefinitionLines ==
    { <<Tag("for", NameA, <<NameB>>)>>,
      <<Tag("endfor", <<>>, <<>>)>>,
      <<Tag("typecomment", NameC, <<<<88>>>>)>>,
      <<Typing("var", NameForloop, <<>>)>>,
      <<Typing("var", NameParentloop, <<>>)>>,
      <<Typing("var", NameCounter, <<>>)>>,
      <<Typing("var", NameA, <<>>)>>,
      <<Typing("var", <<97, 46, 112, 111, 112>>, <<>>)>>,
      <<Typing("var", NameB, <<>>)>>,
      <<Typing("var", NameC, <<>>)>> }

InitContextDefinition ==
    /\ workspace_index = IndexOf(ContextData)
    /\ \E lines \in Lines(ContextDefinitionLines) :
          document = [template_name |-> None, lines |-> lines]
    /\ result = Idle
    /\ _MOST_RECENT_COMPLETIONS = EmptyDict
    /\ ServerAtRest

NextContextDefinition ==
    \/ \E line \in 0..(MaxLines - 1), character \in 0..MaxCharacter :
          ParserGotoDefinition(line, character)
    \/ Deliver

SpecContextDefinition == InitContextDefinition /\ [][NextContextDefinition]_vars

\* goto_definition ran get_context_definition and it returned
ContextDefinitionReturned ==
    /\ CalledOnLine({"goto_definition"})
    /\ result.handler = 5
    /\ ~result.out.raised

\* C19: get_context_definition returns no location that points into the unit handed
\* to the engine: whatever it returns is absent or a location in a file, also for a
\* name whose type is a class that the unit itself declares.
C19_NoLocationInUnit ==
    (ContextDefinitionReturned /\ ~IsNone(result.out.value))
       => ~IsNone(Val(result.out.value).path)

\* the definition of the context variable a, which the unit declares as a list: the
\* engine's goto is in the unit, and the location returned is the one of the class
C19_UnitNameResolvedToFile ==
    /\ ContextDefinitionReturned
    /\ CursorItem = Typing("var", NameA, <<>>)
    /\ ~result.out.raised
    /\ result.out.value = Some(Location("", Some(TypeL), <<48>>))

(***************************************************************************)
(* The advisory of a failed collection                                     *)
(***************************************************************************)

WorkspaceIndexUpdate(django_data) ==
    /\ result.op = "idle"
    /\ workspace_index' = Update(workspace_index, django_data)
    /\ result' = [op |-> "update", django_data |-> django_data,
                  previous |-> workspace_index]
    /\ UNCHANGED <<document, _MOST_RECENT_COMPLETIONS, is_initialized,
                   current_file_watcher_globs, threads, shown_messages,
                   cache_file>>

\* the data of a collector run with only some of its keys
UpdateData ==
    { [key \in keys |-> run[key]] :
        run \in CollectorRuns, keys \in SUBSET Range(Collections) }

InitUpdate ==
    /\ \E django_data \in UpdateData : workspace_index = IndexOf(django_data)
    /\ document = [template_name |-> None, lines |-> <<>>]
    /\ result = Idle
    /\ _MOST_RECENT_COMPLETIONS = EmptyDict
    /\ ServerAtRest

NextUpdate ==
    \/ \E django_data \in UpdateData : WorkspaceIndexUpdate(django_data)
    \/ Deliver

SpecUpdate == InitUpdate /\ [][NextUpdate]_vars

\* whether the entries of an index dict are those of a dict of the data, name by name,
\* with the docs and the source given there (the docs of a tag have no default and
\* are optional in the index)
EntriesOf(indexed, given, optional_docs) ==
    /\ DOMAIN indexed = DOMAIN given
    /\ \A name \in DOMAIN given :
          /\ indexed[name].name = name
          /\ "docs" \in DOMAIN given[name] =>
                indexed[name].docs = (IF optional_docs THEN Some(given[name].docs)
                                      ELSE given[name].docs)
          /\ "source" \in DOMAIN given[name] => indexed[name].source = given[name].source

\* C21: after WorkspaceIndex.update(data) every collection of the index reflects data
\* alone: the watch globs and static files are those of data, every route, library,
\* tag, filter, template and context variable of data is there under its name with
\* its docs and source, and nothing else is, also in a collection that data omits.
C21_IndexReflectsOnlyData ==
    result.op = "update" =>
       LET data == result.django_data
           libs == Get(data, "libraries", EmptyDict)
       IN  /\ workspace_index.file_watcher_globs = Get(data, "file_watcher_globs", <<>>)
           /\ workspace_index.static_files = Get(data, "static_files", <<>>)
           /\ EntriesOf(workspace_index.urls, Get(data, "urls", EmptyDict), FALSE)
           /\ DOMAIN workspace_index.libraries = DOMAIN libs
           /\ \A lib \in DOMAIN libs :
                 /\ EntriesOf(workspace_index.libraries[lib].tags,
                              Get(libs[lib], "tags", EmptyDict), TRUE)
                 /\ EntriesOf(workspace_index.libraries[lib].filters,
                              Get(libs[lib], "filters", EmptyDict), FALSE)
           /\ DOMAIN workspace_index.templates = DOMAIN Get(data, "templates", EmptyDict)
           /\ DOMAIN workspace_index.global_template_context
                 = DOMAIN Get(data, "global_template_context", EmptyDict)

\* an update with data that has no routes, on an index that had some: no route is left
C21_OmittedRoutesCleared ==
    /\ result.op = "update"
    /\ result.previous.urls # EmptyDict
    /\ "urls" \notin DOMAIN result.django_data
    /\ "libraries" \in DOMAIN result.django_data
    /\ workspace_index.urls = EmptyDict

(***************************************************************************)
(* The sources of the context and their order                              *)
(***************************************************************************)

\* the lists a and b in the global template context; the template p declares a as S
SourcesData ==
    [global_template_context |->
        (NameA :> [isdict |-> FALSE, type |-> Some(TypeL)])
        @@ (NameB :> [isdict |-> FALSE, type |-> Some(TypeL)]),
     templates |->
        (TplP :> [path |-> <<>>,
                  context |-> (NameA :> [isdict |-> FALSE, type |-> Some(TypeS)])])]

\* "{# type a: I #}", "{% for a in b %}", "{% with a=b.0 %}", "{% endfor %}",
\* "{% url 'c' as a %}", "text"
SourcesLines ==
    { <<Tag("typecomment", NameA, <<TypeI>>)>>,
      <<Tag("for", NameB, <<NameA>>)>>,
      <<Tag("with", <<98, 46, 48>>, <<NameA>>)>>,
      <<Tag("endfor", <<>>, <<>>)>>,
      <<TagAs("url", NameC, <<>>, <<NameA>>)>>,
      <<Text>> }

\* parser.get_context(line=line, character=character) twice in a row on one parser:
\* the second call reads what the first one has left
ParserGetContextTwice(line, character) ==
    LET first == get_context(workspace_index, document, line)
        left == IF first.raised THEN workspace_index
                ELSE IndexAfterGetContext(workspace_index, first.value)
    IN  /\ result.op = "idle"
        /\ line < Len(document.lines)
        /\ workspace_index' = left
        /\ result' = [op |-> "get_context twice", line |-> line, character |-> character,
                      index |-> workspace_index,
                      first |-> first,
                      out |-> get_context(left, document, line)]
        /\ UNCHANGED <<document, _MOST_RECENT_COMPLETIONS, is_initialized,
                       current_file_watcher_globs, threads, shown_messages,
                       cache_file>>

InitSources ==
    /\ workspace_index = IndexOf(SourcesData)
    /\ \E lines \in Lines(SourcesLines), template_name \in {None, Some(TplP)} :
          document = [template_name |-> template_name, lines |-> lines]
    /\ result = Idle
    /\ _MOST_RECENT_COMPLETIONS = EmptyDict
    /\ ServerAtRest

NextSources ==
    \/ \E line \in 0..(MaxLines - 1), character \in 0..MaxCharacter :
          ParserGetContext(line, character)
    \/ \E line \in 0..(MaxLines - 1), character \in 0..MaxCharacter :
          ParserGetContextTwice(line, character)
    \/ Deliver

SpecSources == InitSources /\ [][NextSources]_vars

RECURSIVE TolerantScan(_, _, _, _)
\* the frames open after the lines i..last when a closing line discards the top frame
\* whatever its kind and a closing line on an empty stack is passed over
TolerantScan(lines, i, last, stack) ==
    IF i > last THEN stack
    ELSE LET src_line == lines[i]
             popped == IF stack = <<>> THEN stack ELSE SubSeq(stack, 1, Len(stack) - 1)
         IN  IF ForStartMatch(src_line) # 0
             THEN TolerantScan(lines, i + 1, last,
                               Append(stack, src_line[ForStartMatch(src_line)]))
             ELSE IF ForEndMatch(src_line) THEN TolerantScan(lines, i + 1, last, popped)
             ELSE IF WithStartMatch(src_line) # 0
             THEN TolerantScan(lines, i + 1, last,
                               Append(stack, src_line[WithStartMatch(src_line)]))
             ELSE IF WithEndMatch(src_line) THEN TolerantScan(lines, i + 1, last, popped)
             ELSE TolerantScan(lines, i + 1, last, stack)

\* the names that the frames of a stack bind
NamesBoundBy(stack) ==
    UNION { Range(stack[i].args) \cup (IF stack[i].k = "for" THEN {NameForloop} ELSE {}) :
            i \in 1..Len(stack) }

\* C23: for any for/with opening lines and endfor/endwith closing lines down to the
\* cursor line, balanced or not, get_context returns a context: a closing line
\* discards the top frame, also one of the other kind, a closing line without an open
\* frame is passed over, and the frames left open at the cursor line bind their names.
C23_UnbalancedClosingTolerated ==
    result.op = "get_context" =>
       /\ ~result.out.raised
       /\ result.line >= 1 =>
             NamesBoundBy(TolerantScan(document.lines, 1, result.line + 1, <<>>))
                \subseteq CtxNames(result.out.value)

\* "{% for b in a %}" closed by "{% endwith %}": the context of the line below has
\* no b
C23_OtherKindDiscardsFrame ==
    /\ result.op = "get_context"
    /\ ~result.out.raised
    /\ result.line = 2
    /\ Len(document.lines) = 3
    /\ document.lines[1] = <<Tag("for", NameA, <<NameB>>)>>
    /\ document.lines[2] = <<Tag("endwith", <<>>, <<>>)>>
    /\ ForStartMatch(document.lines[3]) = 0
    /\ NameB \notin CtxNames(result.out.value)

\* the sources of the document that bind a name, as the kinds of binding they write:
\* an as clause anywhere, the frames that the scan leaves open (innermost last), a type
\* comment anywhere
AsClauseBinds(name) ==
    \E i \in 1..Len(document.lines) :
       \E item \in Range(document.lines[i]) : item.c /\ name \in Range(item.as)

FramesBinding(name) ==
    LET frames == TolerantScan(document.lines, 1,
                               ScannedLines(document.lines, result.line), <<>>)
    IN  SelectSeq(frames, LAMBDA frame : name \in Range(frame.args))

TypeCommentBinds(name) ==
    \E i \in 1..Len(document.lines) :
       \E item \in Range(document.lines[i]) :
          item.k = "typecomment" /\ item.c /\ item.n = name

TemplateBinds(name) ==
    /\ ~IsNone(document.template_name)
    /\ Val(document.template_name) \in DOMAIN workspace_index.templates
    /\ name \in DOMAIN workspace_index.templates[Val(document.template_name)].context

\* the last source, in the order global context, template context, type comments, open
\* frames from the outermost to the innermost, as clauses, that binds a name
LastSource(name) ==
    IF AsClauseBinds(name) THEN "as"
    ELSE IF FramesBinding(name) # <<>>
         THEN FramesBinding(name)[Len(FramesBinding(name))].k
    ELSE IF TypeCommentBinds(name) THEN "typecomment"
    ELSE IF TemplateBinds(name) THEN "template"
    ELSE "global"

\* the source that wrote a binding of the name a: each source of SourcesData and
\* SourcesLines binds a differently
SourceOfBinding(var) ==
    CASE var = Variable(EmptyDict) -> "as"
      [] var.value # <<>> /\ var.value[Len(var.value)] = NextIter -> "for"
      [] var.value # <<>> /\ var.value[Len(var.value)] # NextIter -> "with"
      [] var.type = Some(TypeI) -> "typecomment"
      [] var.type = Some(TypeS) -> "template"
      [] var.type = Some(TypeL) -> "global"

\* C24: when several sources define a name, the context binds it as the last of them
\* does, in the order global context, context of the template, type comments, open
\* frames from the outermost to the innermost, as clauses of the whole document (an
\* as clause binds the untyped placeholder, also when it is below the cursor).
C24_LastSourceWins ==
    (result.op = "get_context" /\ ~result.out.raised) =>
       /\ NameA \in CtxNames(result.out.value)
       /\ SourceOfBinding(CtxGet(result.out.value, NameA)) = LastSource(NameA)

\* inside "{% for a in b %}" of the template p, with "{% url 'c' as a %}" below the
\* cursor line: a is the untyped placeholder
C24_AsClauseBelowCursorWins ==
    /\ result.op = "get_context"
    /\ ~result.out.raised
    /\ result.line = 1
    /\ Len(document.lines) = 3
    /\ document.lines[1] = <<Tag("for", NameB, <<NameA>>)>>
    /\ document.lines[3] = <<TagAs("url", NameC, <<>>, <<NameA>>)>>
    /\ TemplateBinds(NameA)
    /\ CtxGet(result.out.value, NameA) = Variable(EmptyDict)

(***************************************************************************)
(* The rendering of a translated path                                      *)
(***************************************************************************)

\* the call of _django_variable_to_python returned and each of its probes had an answer
EveryProbeAnswered ==
    /\ result.op = "_django_variable_to_python"
    /\ ~result.out.raised
    /\ \A k \in 1..Len(result.probes) : result.probes[k].infer # <<>>

\* the unit that the probes of the call were made on
ProbedUnit ==
    ScriptLines(get_context(workspace_index, document, result.line).value, document.lines)

\* the segments of the translated variable that are not empty, and whether the last
\* segment of the variable is the last of them
NamedSegments == SelectSeq(Split(result.variable, 46), LAMBDA seg : seg # <<>>)

\* the translation without its calls and its trailing dot
WithoutCalls == SelectSeq(result.out.value, LAMBDA st : st.op \in {"name", "index"})

\* whether step k of the translation is the rendering of the final segment
IsFinalSegment(k) ==
    /\ result.variable[Len(result.variable)] # 46
    /\ \A h \in (k + 1)..Len(result.out.value) :
          result.out.value[h].op \notin {"name", "index"}

\* C25: when every probe has an answer, the translation renders the segments of the
\* path from left to right: a segment of digits that is not the first one as the
\* subscript [n], every other segment as an attribute access, followed by a call ()
\* exactly when the engine reports a function for it and it is not the final segment
\* of a call with execute_last_function off; a trailing dot of the path ends the
\* translation.
C25_SegmentsRenderedInOrder ==
    (EveryProbeAnswered /\ result.variable # <<>>) =>
       LET o == result.out.value IN
       /\ Len(WithoutCalls) = Len(NamedSegments)
       /\ \A i \in 1..Len(NamedSegments) :
             WithoutCalls[i] = IF IsDigit(NamedSegments[i]) /\ i > 1
                               THEN [op |-> "index", x |-> NamedSegments[i]]
                               ELSE [op |-> "name", x |-> NamedSegments[i]]
       /\ \A k \in 1..Len(o) :
             /\ o[k].op = "name" =>
                   ((k < Len(o) /\ o[k + 1] = Call)
                      <=> (/\ EngineEval(o, k, ProbedUnit).kind = "function"
                           /\ (IsFinalSegment(k) => result.execute_last_function)))
             /\ o[k].op = "call" => (k > 1 /\ o[k - 1].op = "name")
             /\ o[k].op = "dot" => k = Len(o)
       /\ (o[Len(o)] = Dot) <=> (result.variable[Len(result.variable)] = 46)

\* "a.pop.up" with execute_last_function off came back as a.pop().up
C25_InnerFunctionCalled ==
    /\ EveryProbeAnswered
    /\ ~result.execute_last_function
    /\ result.variable = <<97, 46, 112, 111, 112, 46, 117, 112>>
    /\ result.out.value = <<Seg(NameA), Seg(<<112, 111, 112>>), Call, Seg(<<117, 112>>)>>

(***************************************************************************)
(* The probes of one translation                                           *)
(***************************************************************************)

\* the positions of the segments of the translated variable that are not a list
\* index: the first segment, and every segment that has a character other than 0-9
ProbedSegments ==
    LET segments == Split(result.variable, 46) IN
    { i \in 1..Len(segments) :
         \/ i = 1
         \/ segments[i] = <<>>
         \/ \E h \in 1..Len(segments[i]) : segments[i][h] \notin 48..57 }

\* C26: one call of _django_variable_to_python makes at most one probe for each
\* segment that is not a list index, so at most as many probes as the path has
\* segments; it makes no probe after a probe without an answer; and what it probes
\* is the translation so far plus the segment as typed, never translated again.
C26_ProbesBounded ==
    result.op = "_django_variable_to_python" =>
       LET probes == result.probes IN
       /\ Len(probes) <= Cardinality(ProbedSegments)
       /\ Cardinality(ProbedSegments) <= Len(Split(result.variable, 46))
       /\ \A k \in 1..(Len(probes) - 1) : probes[k].infer # <<>>
       /\ \A k \in 1..Len(probes) :
             /\ probes[k].code # <<>>
             /\ \A h \in 1..Len(probes[k].code) : probes[k].code[h].op # "dot"
             /\ k > 1 => Len(probes[k].code) >= Len(probes[k - 1].code)
       /\ (~result.out.raised /\ probes # <<>> /\ probes[Len(probes)].infer = <<>>)
             => result.out.value = RawExpr(result.variable)

\* a probe of the first segment of a path of three segments had no answer and the
\* two segments after it were never probed
C26_NoProbeAfterEmptyAnswer ==
    /\ result.op = "_django_variable_to_python"
    /\ result.failing = {}
    /\ Len(Split(result.variable, 46)) = 3
    /\ Len(result.probes) = 1
    /\ result.probes[1].infer = <<>>

(***************************************************************************)
(* The ranking of tag completions                                          *)
(***************************************************************************)

\* the builtin library of the collector data with the tags "if" (inner "else",
\* closing "endif"), "a" (closing "ab"), "h" (closing "g") and "g"
RankLibraries ==
    BUILTIN :>
      [tags |-> (NameIf :> [docs |-> NameIf, source |-> <<>>,
                            inner_tags |-> <<NameElse>>, closing_tag |-> NameEndif])
                @@ (NameA :> [docs |-> NameA, source |-> <<>>, closing_tag |-> NameAB])
                @@ (NameH :> [docs |-> NameH, source |-> <<>>, closing_tag |-> NameG])
                @@ (NameG :> [docs |-> NameG, source |-> <<>>]),
       filters |-> (NameC :> [docs |-> NameC, source |-> <<>>])]

\* "{% if %}", "{% a %}", "{% h %}", "{% g %}", "{% a %}{% if %}" and nine "{% g %}",
\* "{% ", "{% e"
RankLines ==
    { <<Tag("if", <<>>, <<>>)>>,
      <<Tag("tag", NameA, <<>>)>>,
      <<Tag("tag", NameH, <<>>)>>,
      <<Tag("tag", NameG, <<>>)>>,
      <<Tag("tag", NameA, <<>>), Tag("if", <<>>, <<>>)>>
         \o [i \in 1..9 |-> Tag("tag", NameG, <<>>)],
      <<Typing("tagname", <<>>, <<>>)>>,
      <<Typing("tagname", <<101>>, <<>>)>> }

InitRank ==
    /\ workspace_index = IndexOf([libraries |-> RankLibraries])
    /\ \E lines \in Lines(RankLines) :
          document = [template_name |-> None, lines |-> lines]
    /\ result = Idle
    /\ _MOST_RECENT_COMPLETIONS = EmptyDict
    /\ ServerAtRest

NextRank ==
    \/ \E line \in 0..(MaxLines - 1), character \in 0..MaxCharacter :
          ParserCompletions(line, character)
    \/ Deliver

SpecRank == InitRank /\ [][NextRank]_vars

\* the tags of the loaded libraries that are used above the cursor line of the call,
\* the nearest to the cursor first
UsedAbove ==
    LET words == Flatten([i \in 1..result.line |-> ReTagFindall(document.lines[i])])
    IN  Reversed(SelectSeq(words, LAMBDA wd : wd \in TagsDefinedBy(LoadedSet)))

\* the inner and closing names of a tag of the builtin library
InnerAndClosing(name) ==
    LET tag == workspace_index.libraries[BUILTIN].tags[name] IN
    Range(tag.inner_tags)
       \cup (IF IsNone(tag.closing_tag) THEN {} ELSE {Val(tag.closing_tag)})

\* how many used tags lie between the cursor and the nearest one that has the name
\* as an inner or closing name; the number of used tags when none has
Nearness(name) ==
    LET with == { i \in 1..Len(UsedAbove) : name \in InnerAndClosing(UsedAbove[i]) }
    IN  IF with = {} THEN Len(UsedAbove)
        ELSE (CHOOSE i \in with : \A j \in with : i <= j) - 1

\* the place of a label in the returned list, 0 when it is not offered
PlaceOf(label) ==
    LET at == { i \in 1..Len(result.out.value) : result.out.value[i].label = label }
    IN  IF at = {} THEN 0 ELSE CHOOSE i \in at : TRUE

\* the names that are the inner or closing name of a tag used above the cursor
InnerNamesAbove ==
    UNION { InnerAndClosing(UsedAbove[i]) : i \in 1..Len(UsedAbove) }

\* C27: in the sorted result of tag completion every offered inner or closing name of
\* a tag used above the cursor comes before every offered generic tag, and of two
\* such names the one of the nearer tag comes first.
C27_InnerNamesNearestFirst ==
    Completed("tagname") =>
       \A x \in InnerNamesAbove : PlaceOf(x) > 0 =>
          /\ \A y \in TagsDefinedBy(LoadedSet) \ InnerNamesAbove :
                PlaceOf(y) > 0 => PlaceOf(x) < PlaceOf(y)
          /\ \A y \in InnerNamesAbove :
                (PlaceOf(y) > 0 /\ Nearness(x) < Nearness(y)) => PlaceOf(x) < PlaceOf(y)

\* below "{% a %}" and "{% if %}" the names of "if" came first, then "ab", then the
\* generic tags
C27_NearerTagRankedFirst ==
    /\ Completed("tagname")
    /\ UsedAbove = <<NameIf, NameA>>
    /\ PlaceOf(NameElse) = 1
    /\ PlaceOf(NameEndif) = 2
    /\ PlaceOf(NameAB) = 3
    /\ PlaceOf(NameA) = 4

(***************************************************************************)
(* The synthetic unit                                                      *)
(***************************************************************************)

\* TemplateParser.create_jedi_script(code, context=context, transform_code=...,
\* execute_last_function=...): the lines of the unit handed to jedi.Script, the code
\* of the caller last; `failing` as in VariableToPythonOutcome
create_jedi_script(code, context, lines, transform_code, execute_last_function, failing) ==
    LET translated == VariableToPythonOutcome(code, context, lines, execute_last_function,
                                              failing)
    IN  IF transform_code /\ translated.raised THEN Raise("Exception")
        ELSE Return(Append(ScriptLines(context, lines),
                           UnitLine("code", <<>>, <<>>,
                                    IF transform_code THEN translated.value
                                    ELSE RawExpr(code))))

\* self.create_jedi_script(code, line=line, character=character, ...): the context is
\* the one of the cursor line
ParserCreateJediScript(code, line, transform_code, execute_last_function, failing) ==
    LET context == get_context(workspace_index, document, line)
        Built(unit) ==
            [op |-> "create_jedi_script", code |-> code, line |-> line,
             transform_code |-> transform_code, context |-> context.value,
             out |-> unit]
    IN
    /\ result.op = "idle"
    /\ line < Len(document.lines)
    /\ ~context.raised
    /\ result' = Built(create_jedi_script(code, context.value, document.lines,
                                          transform_code, execute_last_function, failing))
    /\ UNCHANGED <<workspace_index, document, _MOST_RECENT_COMPLETIONS, is_initialized,
                   current_file_watcher_globs, threads, shown_messages,
                   cache_file>>

\* global context: a: {"type": "L", "value": "b"}, b: "m.C", c: {"value": "a"},
\* g: {}, h: {"type": ""}
UnitData ==
    [global_template_context |->
        (NameA :> [isdict |-> TRUE,
                   fields |-> [type |-> Some(TypeL), value |-> <<Seg(NameB)>>]])
        @@ (NameB :> [isdict |-> FALSE, type |-> Some(TypeMC)])
        @@ (NameC :> [isdict |-> TRUE, fields |-> [value |-> <<Seg(NameA)>>]])
        @@ (NameG :> [isdict |-> TRUE, fields |-> [docs |-> <<>>]])
        @@ (NameH :> [isdict |-> TRUE, fields |-> [type |-> Some(<<>>)]])]

\* "{# type g: I #}", "{% for c in a %}", "{% with h=a.0 %}", "{% endfor %}",
\* "{% url 'c' as a %}", "text", "{# type forloop: _DjangoForLoop #}"
UnitLines ==
    { <<Tag("typecomment", NameG, <<TypeI>>)>>,
      <<Tag("typecomment", NameForloop, <<ForLoopType>>)>>,
      <<Tag("for", NameA, <<NameC>>)>>,
      <<Tag("with", <<97, 46, 48>>, <<NameH>>)>>,
      <<Tag("endfor", <<>>, <<>>)>>,
      <<TagAs("url", NameC, <<>>, <<NameA>>)>>,
      <<Text>> }

\* "a", "a.0.up", "c."
UnitCodes == { NameA, <<97, 46, 48, 46, 117, 112>>, <<99, 46>> }

InitUnit ==
    /\ workspace_index = IndexOf(UnitData)
    /\ \E lines \in Lines(UnitLines) :
          document = [template_name |-> None, lines |-> lines]
    /\ result = Idle
    /\ _MOST_RECENT_COMPLETIONS = EmptyDict
    /\ ServerAtRest

NextUnit ==
    \/ \E code \in UnitCodes, line \in 0..(MaxLines - 1), transform_code \in BOOLEAN,
          execute_last_function \in BOOLEAN, failing \in SUBSET {<<Seg(NameA)>>} :
          ParserCreateJediScript(code, line, transform_code, execute_last_function,
                                 failing)
    \/ Deliver

SpecUnit == InitUnit /\ [][NextUnit]_vars

\* a unit was built
UnitBuilt == result.op = "create_jedi_script" /\ ~result.out.raised

\* the declarations of variables in the built unit, in the order of the unit
DeclarationsOfUnit ==
    SelectSeq(result.out.value, LAMBDA ln : ln.kind \in {"annot", "assign"})

\* C28: the unit declares every variable of the context exactly once and in the order
\* of the context: with an annotation and without its value when the variable has a
\* type, otherwise as an assignment of its value, otherwise as an assignment of None;
\* the last line of the unit, and no other line, is the code of the caller.
C28_OneDeclarationPerVariable ==
    UnitBuilt =>
       LET unit == result.out.value
           context == result.context
       IN
       /\ Len(DeclarationsOfUnit) = Len(context)
       /\ \A i \in 1..Len(context) :
             LET var == context[i].var
                 typed == ~IsNone(var.type) /\ Val(var.type) # <<>>
                 ln == DeclarationsOfUnit[i]
             IN  /\ ln.name = context[i].name
                 /\ typed => (ln.kind = "annot" /\ ln.value = <<>> /\ ln.type # <<>>)
                 /\ (~typed /\ var.value # <<>>)
                       => (ln.kind = "assign" /\ ln.value = var.value)
                 /\ (~typed /\ var.value = <<>>)
                       => (ln.kind = "assign" /\ ln.value = <<[op |-> "name", x |-> NameNone]>>)
       /\ unit[Len(unit)].kind = "code"
       /\ \A k \in 1..(Len(unit) - 1) : unit[k].kind # "code"
       /\ ~result.transform_code => unit[Len(unit)].value = RawExpr(result.code)
       /\ result.transform_code
             => SegmentsOf(unit[Len(unit)].value) = SegmentsOf(RawExpr(result.code))

\* a unit for a context with a variable that has a type and a value, a variable with
\* a value only and a variable with neither
C28_TypeValueAndNeither ==
    /\ UnitBuilt
    /\ \E i, j, k \in 1..Len(result.context) :
          /\ i < j /\ j < k
          /\ \E x, y, z \in {result.context[i].var, result.context[j].var,
                             result.context[k].var} :
                /\ ~IsNone(x.type) /\ Val(x.type) # <<>> /\ x.value # <<>>
                /\ (IsNone(y.type) \/ Val(y.type) = <<>>) /\ y.value # <<>>
                /\ (IsNone(z.type) \/ Val(z.type) = <<>>) /\ z.value = <<>>

(***************************************************************************)
(* The loop state class of the unit                                        *)
(***************************************************************************)

\* the context of the built unit binds forloop to the class _DjangoForLoop
BindsForloopToLoopType ==
    \E i \in 1..Len(result.context) :
       /\ result.context[i].name = NameForloop
       /\ result.context[i].var.type = Some(ForLoopType)

\* a for frame is open at the cursor line of the call
OpenLoopFrame ==
    \E frame \in Range(TolerantScan(document.lines, 1,
                                    ScannedLines(document.lines, result.line), <<>>)) :
       frame.k = "for"

\* the document has the token "{% for " somewhere
DocumentHasLoopToken ==
    \E i \in 1..Len(document.lines) : \E item \in Range(document.lines[i]) : item.k = "for"

\* the class _DjangoForLoop is the first line of the built unit and forloop is declared
\* with it below
LoopTypeDeclaredBeforeForloop ==
    LET unit == result.out.value IN
    /\ unit[1] = [kind |-> "class", name |-> ForLoopType, type |-> <<>>, value |-> <<>>]
    /\ \E k \in 2..Len(unit) :
          /\ unit[k].kind = "annot"
          /\ unit[k].name = NameForloop
          /\ unit[k].type = ForLoopType

\* the class is the first line of the unit exactly when the document has a loop token,
\* it is on no other line, and an open loop frame comes with a loop token
LoopTypeFollowsToken ==
    LET unit == result.out.value IN
    /\ (unit[1].kind = "class") <=> DocumentHasLoopToken
    /\ \A k \in 2..Len(unit) : unit[k].kind # "class"
    /\ OpenLoopFrame => DocumentHasLoopToken

\* C29 as stated: whenever the context binds forloop to the loop state class, the unit
\* built from it declares the class before forloop; the class is the first line exactly
\* when the document has a loop token, and an open loop frame comes with such a token.
C29_ForloopTypeAlwaysDeclared ==
    UnitBuilt =>
       /\ BindsForloopToLoopType => LoopTypeDeclaredBeforeForloop
       /\ LoopTypeFollowsToken

\* C29 amended: whenever the context binds forloop to the loop state class through an
\* open loop frame, the unit built from it declares the class before forloop; the class
\* is the first line exactly when the document has a loop token, and an open loop frame
\* comes with such a token.
C29_LoopFrameTypeDeclared ==
    UnitBuilt =>
       /\ (OpenLoopFrame /\ BindsForloopToLoopType) => LoopTypeDeclaredBeforeForloop
       /\ LoopTypeFollowsToken

\* a unit for a cursor inside a loop that opens below the first line
C29_UnitInsideLoop ==
    /\ UnitBuilt
    /\ OpenLoopFrame
    /\ BindsForloopToLoopType
    /\ \A item \in Range(document.lines[1]) : item.k # "for"
    /\ LoopTypeDeclaredBeforeForloop

(***************************************************************************)
(* A refresh without data                                                  *)
(***************************************************************************)

\* the cache at the start: the option off, the option on without a file, the option on
\* with the file of an earlier run
CacheFiles ==
    { [cache |-> FALSE, data |-> None], [cache |-> TRUE, data |-> None],
      [cache |-> TRUE, data |-> Some(CollectorRun(NameA, LibrariesBuiltinW))] }

InitCache ==
    /\ workspace_index = IndexOf(FALLBACK_DJANGO_DATA)
    /\ document = [template_name |-> None, lines |-> <<<<Typing("url", <<>>, <<>>)>>>>]
    /\ result = Idle
    /\ _MOST_RECENT_COMPLETIONS = EmptyDict
    /\ is_initialized = FALSE
    /\ current_file_watcher_globs = <<>>
    /\ threads = <<>>
    /\ shown_messages = <<>>
    /\ cache_file \in CacheFiles

NextCache ==
    \/ \E django_data \in Collected, loaded_from_cache \in BOOLEAN :
          Initialized(django_data, loaded_from_cache)
    \/ FilesChanged
    \/ \E t \in 1..Len(threads), django_data \in Collected, loaded_from_cache \in BOOLEAN :
          Collect(t, django_data, loaded_from_cache)
    \/ \E t \in 1..Len(threads), k \in 1..6 : UpdateStep(t, k)
    \/ \E t \in 1..Len(threads) : Watch(t)

SpecCache == InitCache /\ [][NextCache]_vars

\* the six collections of the index
IndexCollections(idx) == [k \in Range(Collections) |-> idx[k]]

\* the step is one of a get_django_data call that has no data: initialized() shows
\* the advisory, or a worker's call passes from the collector to the watcher without
\* data, or ends without data
StepWithoutData ==
    \/ ~is_initialized /\ is_initialized' /\ shown_messages' # shown_messages
    \/ \E t \in 1..Len(threads) :
          \/ threads[t].pc = "collect" /\ threads'[t].pc = "watch"
          \/ /\ threads[t].pc = "watch" /\ threads'[t].pc = "done"
             /\ IsNone(threads[t].django_data)

\* C30: a step of a refresh whose collection has no data leaves urls, libraries,
\* templates, static files, global context and watch globs of the index as they were
\* and writes nothing to the cache file.
C30_NoDataRefreshKeepsSnapshot ==
    [][StepWithoutData =>
          /\ IndexCollections(workspace_index') = IndexCollections(workspace_index)
          /\ cache_file' = cache_file]_vars

\* a refresh without data has ended while the index holds collected data and the cache
\* file holds data of a collector run
C30_FailedRefreshAfterCollected ==
    /\ \E t \in 1..Len(threads) : threads[t].pc = "done" /\ IsNone(threads[t].django_data)
    /\ \A t \in 1..Len(threads) : threads[t].pc = "done"
    /\ workspace_index # IndexOf(FALLBACK_DJANGO_DATA)
    /\ cache_file.cache
    /\ ~IsNone(cache_file.data)

====
